---- MODULE Spec2Model ----
(***************************************************************************)
(* CloudConfigRK: the persistent configuration store                       *)
(* (CloudConfigStorageData and its Retained / EEPROM / File backends) and  *)
(* the synchronisation state machine (CloudConfig) that drives it.         *)
(*                                                                         *)
(* Bytes are small naturals, 0 being the C string terminator.  A record in *)
(* memory is the pair (header, jsonData): the CloudConfigDataHeader fields *)
(* and the dataSize bytes that follow it.                                  *)
(***************************************************************************)
EXTENDS Integers, Sequences, FiniteSets, TLC

\* ------------------------------------------------------------------------
\* Bounds of the model
\* ------------------------------------------------------------------------

\* Largest configured capacity (the SIZE of CloudConfigData<SIZE>) explored.
MaxDataSize == 3

\* ------------------------------------------------------------------------
\* Program constants
\* ------------------------------------------------------------------------

\* CloudConfig::DATA_MAGIC = 0x7251dd53
DATA_MAGIC == 1917967699

\* sizeof(CloudConfigDataHeader)
HeaderSize == 20

\* CloudConfig::UPDATE_ONCE and CloudConfig::UPDATE_AT_RESTART
UPDATE_ONCE == 0

UPDATE_AT_RESTART == -1

\* The defaults of the two tunables of CloudConfigUpdate.
DefaultWaitAfterCloudConnectedMs == 2000

DefaultUpdateTimeoutMs == 60000

\* The interval of the checks of stateWaitToUpdate.
WaitToUpdateCheckMs == 10000

\* (uint8_t) and (uint16_t) casts
U8(n) == n % 256

U16(n) == n % 65536

\* ------------------------------------------------------------------------
\* Bytes, strings, records
\* ------------------------------------------------------------------------

\* The non-zero characters payloads are written with.
Chars == {1, 2}

Byte == {0} \cup Chars

\* All strings over Chars of length n.
StringsOfLen(n) == [1..n -> Chars]

\* A run of n copies of byte b.
Fill(n, b) == [i \in 1..n |-> b]

\* Storage backends with a CloudConfigDataHeader.
DataKinds == {"Retained", "EEPROM", "File"}

\* Capacities explored; capacity 0 is not a usable configuration.
DataSizes == 1..MaxDataSize

\* memset(header, 0, sizeof(CloudConfigDataHeader))
ZeroHeader ==
    [magic |-> 0, headerSize |-> 0, flags |-> 0, dataSize |-> 0,
     lastCheck |-> 0, reserved2 |-> 0, reserved1 |-> 0]

\* The header validate() leaves after a wipe.
EmptyHeader(cap) ==
    [ZeroHeader EXCEPT !.magic = DATA_MAGIC,
                       !.headerSize = U8(HeaderSize),
                       !.dataSize = U16(cap)]

\* The test validate() makes on the header.
HeaderLooksValid(h, cap) ==
    /\ h.magic = DATA_MAGIC
    /\ h.headerSize = U8(HeaderSize)
    /\ h.dataSize = U16(cap)

\* strlen() of a buffer that holds a terminator; the whole buffer otherwise.
RECURSIVE CStr(_)
CStr(buf) ==
    IF buf = <<>> \/ Head(buf) = 0
    THEN <<>>
    ELSE <<Head(buf)>> \o CStr(Tail(buf))

Terminated(buf) == \E i \in 1..Len(buf) : buf[i] = 0

\* A strcat in place of the strcpy: the new text lands after the old one.
StrCpy_Concatenates(dst, src) ==
    [i \in 1..Len(dst) |->
        IF i <= Len(CStr(dst) \o src) THEN (CStr(dst) \o src)[i]
        ELSE IF i = Len(CStr(dst) \o src) + 1 THEN 0
        ELSE dst[i]]

\* strcpy(dst, src): the characters, then the terminator; the bytes of dst
\* beyond the terminator keep their values.
StrCpy(dst, src) ==
    [i \in 1..Len(dst) |->
        IF i <= Len(src) THEN src[i]
        ELSE IF i = Len(src) + 1 THEN 0
        ELSE dst[i]]

\* JSONValue::parseCopy(text): the tree is built from a private copy of the
\* text, so it is a value of its own that later writes to the buffer do not
\* change.
ParseCopy(text) == [text |-> text]

\* A default-constructed JSONValue.
InvalidJSONValue == ParseCopy(<<>>)

\* Longest run of bytes read beyond a buffer that holds no terminator.
MaxOverread == 3

\* What may follow the buffer in memory when parse() runs off the end of a
\* buffer that holds no terminator: the padding of the record and whatever
\* the linker placed after it, up to the first zero byte.
Overread == UNION {StringsOfLen(n) : n \in 0..MaxOverread}

\* parse() of a buffer that holds no terminator can also run into memory
\* that is not mapped, which ends the process.
ParseCanFault(buf) == ~Terminated(buf)

\* CloudConfigStorage::parse(): the trees it can produce from a buffer.
ParseOutcomes(buf) ==
    IF Terminated(buf)
    THEN {ParseCopy(CStr(buf))}
    ELSE {ParseCopy(buf \o t) : t \in Overread}

\* ------------------------------------------------------------------------
\* What the backing medium, or memory never written, can hold
\* ------------------------------------------------------------------------

\* Headers: every combination of right and wrong magic, header size and
\* data size, with the other fields all zero or all set.
GarbageHeaders(cap) ==
    { [magic |-> m, headerSize |-> hs, flags |-> x, dataSize |-> ds,
       lastCheck |-> x, reserved2 |-> x, reserved1 |-> x] :
         m \in {DATA_MAGIC, 0}, hs \in {U8(HeaderSize), 0},
         ds \in {U16(cap), U16(cap + 1)}, x \in {0, 1} }

\* Payload areas: empty, a one character string, an empty string followed
\* by stale bytes, and a buffer with no terminator at all.
GarbageData(cap) ==
    { Fill(cap, 0), StrCpy(Fill(cap, 0), Fill(1, 1)),
      StrCpy(Fill(cap, 2), <<>>), Fill(cap, 2) }

GarbageRecords(cap) ==
    [header : GarbageHeaders(cap), data : GarbageData(cap)]

ZeroRecord(cap) == [header |-> ZeroHeader, data |-> Fill(cap, 0)]

\* What a file of the size of a record can hold when the program starts:
\* the records with a header of the right size and its other fields set,
\* the magic number and the data size right or wrong.
FileRecords(cap) ==
    {r \in GarbageRecords(cap) :
        r.header.headerSize = U8(HeaderSize) /\ r.header.flags = 1}

\* The payloads handed to updateData: every string up to the documented
\* maximum length (capacity - 1), and two that are longer.
Payloads(cap) ==
    UNION {StringsOfLen(n) : n \in 0..(cap - 1)}
        \cup {Fill(cap, 1), Fill(cap + 1, 1)}

\* The payloads that reach CloudConfig::updateData: an empty one, one that
\* fits and one that is too long.
EnginePayloads(cap) == {<<>>, Fill(1, 1), Fill(cap, 1)}

\* sizeof(CloudConfigData<SIZE>): the header, the SIZE bytes of jsonData
\* and the padding up to the alignment of the header.
RecordSize(cap) == HeaderSize + 4 * ((cap + 3) \div 4)

\* What the file system answers to a backend: open tells whether open()
\* returned a descriptor, count is what read() or write() returned.  The
\* other backends have no such answers: their transfers are whole.
WholeTransfer(cap) == [open |-> TRUE, count |-> RecordSize(cap)]

OpenFails == [open |-> FALSE, count |-> -1]

\* The answers to setup() of the file backend: open() fails, read() fails,
\* or read() returns what the file holds.  A read() that stops part way
\* has the effect of one that fails: the buffer is zeroed.
ReadOutcomes(kind, cap) ==
    IF kind = "File"
    THEN {OpenFails, [open |-> TRUE, count |-> -1], WholeTransfer(cap)}
    ELSE {WholeTransfer(cap)}

\* Where a write() that stops inside the header is taken to stop: inside
\* the magic number, and between flags and dataSize.
HeaderTears == {2, 6}

\* What write() of a record can return: an error, nothing written, a stop
\* inside the header, a stop after the header or after any byte of the
\* payload or of the padding, or the whole record.
WriteCounts(cap) ==
    {-1, 0} \cup HeaderTears \cup (HeaderSize..RecordSize(cap))

\* The answers to save() of the file backend: open() fails, or write()
\* returns one of its counts.
WriteOutcomes(kind, cap) ==
    IF kind = "File"
    THEN {OpenFails} \cup
         {[open |-> TRUE, count |-> n] : n \in WriteCounts(cap)}
    ELSE {WholeTransfer(cap)}

\* The answers a call of updateData(json) can meet: save() runs only for a
\* payload that passes the length test.
SaveOutcomes(kind, cap, json) ==
    IF Len(json) < cap - 1
    THEN WriteOutcomes(kind, cap)
    ELSE {WholeTransfer(cap)}

\* What the buffer of a backend object holds when setup() reads nothing
\* into it: only the file backend whose open() failed sees it.  The object
\* may be in static storage or in fresh heap memory, which is all zero, or
\* in memory that was used before.
UnwrittenMemory(kind, cap, io) ==
    IF kind = "File" /\ ~io.open
    THEN GarbageRecords(cap) \cup {ZeroRecord(cap)}
    ELSE {ZeroRecord(cap)}

\* ------------------------------------------------------------------------
\* State
\* ------------------------------------------------------------------------

VARIABLES
    storageKind,    \* which CloudConfigStorage subclass is the storage method
    dataSize,       \* CloudConfigStorageData::dataSize, the capacity
    header,         \* the CloudConfigDataHeader in memory
    jsonData,       \* the dataSize bytes after the header in memory
    jsonObj,        \* CloudConfigStorage::jsonObj, the parsed tree
    medium,         \* the EEPROM region or the file: short, header, data
    phase,          \* "boot": constructed, setup() not yet called; "run"
    sop,            \* what the store did in the last step
    rt,             \* progress of an updateData / restart / setup round trip
    hasUpdateMethod,            \* CloudConfig::updateMethod is set
    hasCallback,                \* CloudConfig::dataCallback is set
    updateFrequency,            \* CloudConfig::updateFrequency
    waitAfterCloudConnectedMs,  \* CloudConfigUpdate::waitAfterCloudConnectedMs
    updateTimeoutMs,            \* CloudConfigUpdate::updateTimeoutMs
    stateHandler,               \* CloudConfig::stateHandler
    stateTime,                  \* CloudConfig::stateTime
    updateDataStatus,           \* CloudConfig::updateDataStatus
    millis,         \* millis(), the monotonic clock of this process run
    epoch,          \* Time.now() at the start of this process run
    timeValid,      \* Time.isValid()
    crashed,        \* the process dereferenced an absent object
    restarts,       \* process restarts so far
    eop,            \* what the engine did in the last step
    hist,           \* what the engine has done in this process run
    query,          \* a getJSONValueAtIndex() call: arguments and result
    updateMethod    \* the CloudConfigUpdate object and what it sent out

storeVars ==
    <<storageKind, dataSize, header, jsonData, jsonObj, medium, phase, sop, rt>>

configVars ==
    <<hasUpdateMethod, hasCallback, updateFrequency,
      waitAfterCloudConnectedMs, updateTimeoutMs>>

engineVars ==
    <<stateHandler, stateTime, updateDataStatus, crashed, eop, hist>>

envVars == <<millis, epoch, timeValid, restarts>>

appVars == <<query, updateMethod>>

vars == <<storeVars, configVars, engineVars, envVars, appVars>>

NoEngineOp ==
    [name |-> "none", handler |-> "none", ret |-> FALSE, called |-> FALSE,
     started |-> FALSE]

\* A process run in which nothing has happened yet.  starts counts the
\* entries into stateStartUpdate, startTicks the calls of stateStart;
\* hadData is whether the store has had data ever since setup(); replied and
\* notified are whether updateData or updateDataFailed was called, and
\* whether the data callback was called, since the last startUpdate().
\* lastStart is Time.now() of the last stateStartUpdate that went through,
\* in this run or in one before it, and -1 while there was none.
\* policyChanges counts the calls of withUpdateFrequency() after setup(),
\* and configured is the policy the application set before setup().
NoHistory ==
    [starts |-> 0, startTicks |-> 0, hadData |-> FALSE, replied |-> FALSE,
     notified |-> FALSE, lastStart |-> -1, late |-> FALSE, lastEval |-> -1,
     answered |-> FALSE, owed |-> FALSE, crossed |-> FALSE,
     lastStartMs |-> -1, sync |-> FALSE, policyChanges |-> 0,
     configured |-> UPDATE_ONCE]

\* The engine as its constructor leaves it, and a process that has not run.
EngineIdle ==
    /\ hist = NoHistory
    /\ stateHandler = "none"
    /\ stateTime = 0
    /\ updateDataStatus = "IDLE"
    /\ crashed = FALSE
    /\ eop = NoEngineOp
    /\ millis = 0
    /\ timeValid = FALSE
    /\ restarts = 0

\* ------------------------------------------------------------------------
\* Reading the parsed tree
\* ------------------------------------------------------------------------

\* Members of a parent value followed.
MaxElements == 3

\* The values a parent can hold: one-byte texts.
Elements == {ParseCopy(<<c>>) : c \in 1..3}

\* The members of a parent value in the order its iterator visits them.
Parents == UNION {[1..n -> Elements] : n \in 0..MaxElements}

\* The loop of getJSONValueAtIndex: pos is the member iter.next() moved to,
\* ii the counter compared with index.  The counter is passed on as it is.
RECURSIVE AtIndexLoop(_, _, _, _)
AtIndexLoop(members, pos, ii, index) ==
    IF pos > Len(members)
    THEN InvalidJSONValue
    ELSE IF ii = index
         THEN members[pos]
         ELSE AtIndexLoop(members, pos + 1, ii, index)

\* CloudConfigStorage::getJSONValueAtIndex(parentObj, index)
GetJSONValueAtIndex(members, index) == AtIndexLoop(members, 1, 0, index)

\* No call made yet with these arguments.
NoQuery == [parent |-> <<>>, index |-> 0, result |-> InvalidJSONValue,
            done |-> FALSE]

\* ------------------------------------------------------------------------
\* The webhook update method
\* ------------------------------------------------------------------------

\* System.deviceID() of the devices followed.
DeviceIds == {"d1", "d2"}

\* Event names an application gives.
EventNames == {"a", "b"}

\* String::format("%s/hook-response/%s/", deviceId, eventName)
HookResponseName(deviceId, eventName) ==
    deviceId \o "/hook-response/" \o eventName \o "/"

\* The update methods: an application's own subclass of CloudConfigUpdate,
\* and the three the library brings.
UpdateMethodKinds == {"custom", "function", "subscription", "webhook"}

\* An update method constructed without arguments, with what it has
\* registered, subscribed to and published on, and the name the application
\* gave it and how.
NewUpdateMethod(kind, deviceId) ==
    [kind |-> kind, deviceId |-> deviceId,
     name |-> "", eventName |-> "", requestEventName |-> "",
     registered |-> FALSE, registeredAs |-> "",
     subscribed |-> FALSE, subscribedTo |-> "",
     published |-> FALSE, publishedOn |-> "",
     given |-> "", givenBy |-> "none"]

\* CloudConfigUpdateWebhook()
DefaultWebhook(deviceId) == NewUpdateMethod("webhook", deviceId)

\* CloudConfigUpdateFunction::withName(name)
FunctionWithName(w, name) == [w EXCEPT !.name = name]

\* CloudConfigUpdateSubscription::withEventName(eventName)
SubscriptionWithEventName(w, eventName) == [w EXCEPT !.eventName = eventName]

\* CloudConfigUpdateWebhook::withEventName(eventName)
WebhookWithEventName(w, eventName) ==
    SubscriptionWithEventName(w, HookResponseName(w.deviceId, eventName))

\* CloudConfigUpdateWebhook(eventName)
WebhookWithName(deviceId, eventName) ==
    WebhookWithEventName(
        [DefaultWebhook(deviceId) EXCEPT !.requestEventName = eventName],
        eventName)

\* CloudConfigUpdateFunction::setup()
FunctionSetup(w) ==
    [w EXCEPT !.registered = TRUE, !.registeredAs = w.name]

\* CloudConfigUpdateSubscription::setup()
SubscriptionSetup(w) ==
    [w EXCEPT !.subscribed = TRUE, !.subscribedTo = w.eventName]

\* CloudConfigUpdateWebhook::startUpdate()
WebhookStartUpdate(w) ==
    [w EXCEPT !.published = TRUE, !.publishedOn = w.requestEventName]

\* updateMethod->setup(): the function method registers its function, the
\* subscription and the webhook methods subscribe; the method of the base
\* class does nothing.
UpdateMethodSetup(w) ==
    CASE w.kind = "function" -> FunctionSetup(w)
      [] w.kind \in {"subscription", "webhook"} -> SubscriptionSetup(w)
      [] OTHER -> w

\* updateMethod->startUpdate(): the webhook method publishes its request;
\* the method of the base class, which the function and the subscription
\* methods inherit, does nothing.
UpdateMethodStartUpdate(w) ==
    IF w.kind = "webhook" THEN WebhookStartUpdate(w) ELSE w

\* Whether startUpdate() can report before it returns: only an
\* application's own update method calls updateData() or
\* updateDataFailed() from inside it.
AnswersInStartUpdate(w) == w.kind = "custom"

\* The status startUpdate() can leave when it calls no updateData().
StartUpdateLeaves(w) ==
    IF AnswersInStartUpdate(w)
    THEN {"IN_PROGRESS", "FAILURE"}
    ELSE {"IN_PROGRESS"}

\* The payloads startUpdate() can hand to updateData() before it returns.
StartUpdatePayloads(w, payloads) ==
    IF AnswersInStartUpdate(w) THEN payloads ELSE {}

\* The update method after a reset: constructed again the same way, with
\* nothing registered, subscribed or published.
Reconstructed(w) ==
    [w EXCEPT !.registered = FALSE, !.registeredAs = "",
              !.subscribed = FALSE, !.subscribedTo = "",
              !.published = FALSE, !.publishedOn = ""]

\* No tree is being read and the update method is an application's own.
AppIdle ==
    /\ query = NoQuery
    /\ updateMethod = NewUpdateMethod("custom", "d1")

\* The record in memory.
Memory == [header |-> header, data |-> jsonData]

\* CloudConfigStorage::hasJsonData()
HasJsonData(buf) == buf[1] # 0

\* CloudConfigStorageData::getMaxJsonDataSize()
GetMaxJsonDataSize(cap) == cap - 1

\* The bytes that survive a restart: retained memory is its own medium.
Persisted ==
    IF storageKind = "Retained"
    THEN [short |-> FALSE, header |-> header, data |-> jsonData]
    ELSE medium

MediumOf(rec) == [short |-> FALSE, header |-> rec.header, data |-> rec.data]

ShortMedium(cap) ==
    [short |-> TRUE, header |-> ZeroHeader, data |-> Fill(cap, 0)]

NoStoreOp(cap) ==
    [name |-> "none", json |-> <<>>, accepted |-> FALSE, wrote |-> FALSE,
     ret |-> FALSE, again |-> FALSE, loaded |-> FALSE,
     pre |-> ZeroRecord(cap)]

NoRoundTrip == [stage |-> "none", json |-> <<>>, wrote |-> FALSE]

\* ------------------------------------------------------------------------
\* CloudConfigStorageData
\* ------------------------------------------------------------------------

\* A validate() that tests the magic bytes alone.
Validate_MagicOnly(rec, cap) ==
    IF rec.header.magic = DATA_MAGIC
    THEN rec
    ELSE [header |-> EmptyHeader(cap), data |-> Fill(cap, 0)]

\* A validate() that reinitialises the header and forgets the payload.
Validate_KeepsPayload(rec, cap) ==
    IF HeaderLooksValid(rec.header, cap)
    THEN rec
    ELSE [header |-> EmptyHeader(cap), data |-> rec.data]

\* CloudConfigStorageData::validate(), on the record in memory: a header
\* that does not look valid is reinitialised and the payload zeroed.
Validate(rec, cap) ==
    IF HeaderLooksValid(rec.header, cap)
    THEN rec
    ELSE [header |-> EmptyHeader(cap), data |-> Fill(cap, 0)]

\* The length test of CloudConfigStorageData::updateData.
UpdateDataFits(json, cap) == Len(json) < cap - 1

\* Whether read() of the file backend filled the whole buffer: it
\* returned sizeof(dataBuffer), which a file that is too short cannot give.
ReadFills(med, cap, io) ==
    io.open /\ io.count = RecordSize(cap) /\ ~med.short

\* What setup() of each backend brings into memory before it validates.
\* io is what the file system answers; garbage is what memory that was
\* never written holds.
LoadRecord(kind, mem, med, cap, io, garbage) ==
    CASE kind = "Retained" -> mem
      [] kind = "EEPROM" -> [header |-> med.header, data |-> med.data]
      [] kind = "File" ->
            IF io.open
            THEN IF ReadFills(med, cap, io)
                 THEN [header |-> med.header, data |-> med.data]
                 ELSE ZeroRecord(cap)
            ELSE garbage

\* Whether setup() read the whole record from the medium.
LoadedFromMedium(kind, med, cap, io) ==
    CASE kind = "Retained" -> TRUE
      [] kind = "EEPROM" -> TRUE
      [] kind = "File" -> ReadFills(med, cap, io)

\* Whether save() of each backend writes the whole record to the medium.
SaveWrites(kind, cap, io) ==
    CASE kind = "Retained" -> TRUE
      [] kind = "EEPROM" -> TRUE
      [] kind = "File" -> io.open /\ io.count = RecordSize(cap)

\* The value save() of each backend returns.
SaveReturns(kind, io) ==
    CASE kind = "Retained" -> TRUE
      [] kind = "EEPROM" -> TRUE
      [] kind = "File" -> TRUE

\* The byte offset and the size of each field of CloudConfigDataHeader.
FieldOffset(f) ==
    CASE f = "magic" -> 0
      [] f = "headerSize" -> 4
      [] f = "flags" -> 5
      [] f = "dataSize" -> 6
      [] f = "lastCheck" -> 8
      [] f = "reserved2" -> 12
      [] f = "reserved1" -> 16

FieldSize(f) ==
    CASE f = "magic" -> 4
      [] f = "headerSize" -> 1
      [] f = "flags" -> 1
      [] f = "dataSize" -> 2
      [] f = "lastCheck" -> 4
      [] f = "reserved2" -> 4
      [] f = "reserved1" -> 4

\* 256^j for the byte counts short of a whole field.
Pow256(j) ==
    CASE j = 1 -> 256
      [] j = 2 -> 65536
      [] j = 3 -> 16777216

\* A little-endian field of which the first j bytes were overwritten.
TornField(new, old, j, size) ==
    IF j >= size THEN new
    ELSE IF j <= 0 THEN old
    ELSE (new % Pow256(j)) + (old - (old % Pow256(j)))

\* A file holding a whole record after write() put the first n bytes of
\* rec at its start: the bytes beyond keep their values.
OverwrittenFile(med, rec, n) ==
    [short |-> FALSE,
     header |-> [f \in DOMAIN rec.header |->
                    TornField(rec.header[f], med.header[f],
                              n - FieldOffset(f), FieldSize(f))],
     data |-> [i \in 1..Len(rec.data) |->
                  IF HeaderSize + i <= n THEN rec.data[i] ELSE med.data[i]]]

\* A save() that never reaches the medium.
SavedMedium_NeverWritten(kind, med, rec, io) == med

\* The medium after save() of a record.  EEPROM.put stores the record;
\* the file backend opens without truncating and writes at offset 0, and
\* a file shorter than a record stays so until one write() is whole.
SavedMedium(kind, med, rec, io) ==
    CASE kind = "EEPROM" -> MediumOf(rec)
      [] kind = "File" ->
            IF ~io.open THEN med
            ELSE IF io.count = RecordSize(Len(rec.data)) THEN MediumOf(rec)
            ELSE IF med.short THEN med
            ELSE OverwrittenFile(med, rec, io.count)
      [] OTHER -> med

\* setup() of CloudConfigStorageRetained / EEPROM / File.
StorageSetup(io, garbage) ==
    LET loaded == LoadRecord(storageKind, Memory, medium, dataSize, io, garbage)
        v == Validate(loaded, dataSize)
    IN  /\ header' = v.header
        /\ jsonData' = v.data
        /\ \/ /\ jsonObj' \in ParseOutcomes(v.data)
              /\ UNCHANGED crashed
           \/ /\ ParseCanFault(v.data)
              /\ crashed' = TRUE
              /\ UNCHANGED jsonObj
        /\ sop' = [NoStoreOp(dataSize) EXCEPT
                      !.name = "setup",
                      !.loaded = LoadedFromMedium(storageKind, medium,
                                                  dataSize, io),
                      !.pre = loaded]
        /\ UNCHANGED <<storageKind, dataSize, medium>>

\* Whether this call repeats the call before it.
SameCallAgain(last, json) == last.name = "updateData" /\ last.json = json

\* An updateData that copies the text before it looks at its length.
StorageUpdateData_CopyBeforeCheck(hdr, json, io) ==
    /\ jsonData' = StrCpy(jsonData, json)
    /\ IF UpdateDataFits(json, dataSize)
       THEN /\ jsonObj' \in ParseOutcomes(jsonData')
            /\ medium' = SavedMedium(storageKind, medium,
                                     [header |-> hdr, data |-> jsonData'], io)
            /\ sop' = [NoStoreOp(dataSize) EXCEPT
                          !.name = "updateData", !.json = json,
                          !.accepted = TRUE,
                          !.again = SameCallAgain(sop, json),
                          !.wrote = SaveWrites(storageKind, dataSize, io),
                          !.ret = SaveReturns(storageKind, io)]
       ELSE /\ sop' = [NoStoreOp(dataSize) EXCEPT
                          !.name = "updateData", !.json = json,
                          !.accepted = FALSE, !.ret = FALSE,
                          !.again = SameCallAgain(sop, json)]
            /\ UNCHANGED <<jsonObj, medium>>
    /\ header' = hdr
    /\ UNCHANGED <<storageKind, dataSize>>

\* An updateData that saves first and takes the text only once it is saved.
StorageUpdateData_SaveBeforeCopy(hdr, json, io) ==
    IF UpdateDataFits(json, dataSize) /\ SaveWrites(storageKind, dataSize, io)
    THEN LET copied == StrCpy(jsonData, json)
         IN  /\ jsonData' = copied
             /\ jsonObj' \in ParseOutcomes(copied)
             /\ medium' = SavedMedium(storageKind, medium,
                                      [header |-> hdr, data |-> copied], io)
             /\ sop' = [NoStoreOp(dataSize) EXCEPT
                           !.name = "updateData", !.json = json,
                           !.accepted = TRUE,
                           !.again = SameCallAgain(sop, json),
                           !.wrote = TRUE,
                           !.ret = SaveReturns(storageKind, io)]
             /\ header' = hdr
             /\ UNCHANGED <<storageKind, dataSize>>
    ELSE /\ sop' = [NoStoreOp(dataSize) EXCEPT
                       !.name = "updateData", !.json = json,
                       !.accepted = UpdateDataFits(json, dataSize),
                       !.ret = SaveReturns(storageKind, io),
                       !.again = SameCallAgain(sop, json)]
         /\ header' = hdr
         /\ UNCHANGED <<storageKind, dataSize, jsonData, jsonObj, medium>>

\* CloudConfigStorageData::updateData(json), called while the header in
\* memory is hdr.
StorageUpdateData(hdr, json, io) ==
    IF UpdateDataFits(json, dataSize)
    THEN LET copied == StrCpy(jsonData, json)
         IN  /\ jsonData' = copied
             /\ jsonObj' \in ParseOutcomes(copied)
             /\ medium' = SavedMedium(storageKind, medium,
                                      [header |-> hdr, data |-> copied], io)
             /\ sop' = [NoStoreOp(dataSize) EXCEPT
                           !.name = "updateData", !.json = json,
                           !.accepted = TRUE,
                           !.again = SameCallAgain(sop, json),
                           !.wrote = SaveWrites(storageKind, dataSize, io),
                           !.ret = SaveReturns(storageKind, io)]
             /\ header' = hdr
             /\ UNCHANGED <<storageKind, dataSize>>
    ELSE /\ sop' = [NoStoreOp(dataSize) EXCEPT
                       !.name = "updateData", !.json = json,
                       !.accepted = FALSE, !.ret = FALSE,
                       !.again = SameCallAgain(sop, json)]
         /\ header' = hdr
         /\ UNCHANGED <<storageKind, dataSize, jsonData, jsonObj, medium>>

\* ------------------------------------------------------------------------
\* The store on its own: setup, updateData, restart
\* ------------------------------------------------------------------------

InitStore ==
    /\ storageKind \in DataKinds
    /\ dataSize \in DataSizes
    /\ phase = "boot"
    /\ jsonObj = InvalidJSONValue
    /\ \E rec \in GarbageRecords(dataSize) \cup {ZeroRecord(dataSize)} :
          /\ header = rec.header
          /\ jsonData = rec.data
          /\ storageKind # "Retained" => rec = ZeroRecord(dataSize)
    /\ medium \in
          CASE storageKind = "Retained" -> {MediumOf(ZeroRecord(dataSize))}
            [] storageKind = "EEPROM" ->
                  {MediumOf(r) : r \in GarbageRecords(dataSize)}
            [] storageKind = "File" ->
                  {MediumOf(r) : r \in FileRecords(dataSize)}
                      \cup {ShortMedium(dataSize)}
    /\ sop = NoStoreOp(dataSize)
    /\ rt = NoRoundTrip
    /\ hasUpdateMethod = FALSE
    /\ hasCallback = FALSE
    /\ updateFrequency = UPDATE_ONCE
    /\ waitAfterCloudConnectedMs = DefaultWaitAfterCloudConnectedMs
    /\ updateTimeoutMs = DefaultUpdateTimeoutMs
    /\ epoch = 0
    /\ EngineIdle
    /\ AppIdle

\* The application calls setup() once after construction.
StoreSetup ==
    /\ phase = "boot"
    /\ \E io \in ReadOutcomes(storageKind, dataSize) :
       \E garbage \in UnwrittenMemory(storageKind, dataSize, io) :
          /\ StorageSetup(io, garbage)
          /\ rt' = IF rt.stage = "restarted" /\ sop'.loaded
                   THEN [rt EXCEPT !.stage = "reloaded"]
                   ELSE NoRoundTrip
    /\ phase' = "run"
    /\ UNCHANGED <<configVars, stateHandler, stateTime, updateDataStatus,
                   eop, hist, envVars, appVars>>

\* A payload is handed to the store.
StoreUpdateData ==
    /\ phase = "run"
    /\ ~crashed
    /\ \E json \in Payloads(dataSize) :
       \E io \in SaveOutcomes(storageKind, dataSize, json) :
          /\ StorageUpdateData(header, json, io)
          /\ rt' = IF sop'.accepted
                   THEN [stage |-> "updated", json |-> json, wrote |-> sop'.wrote]
                   ELSE NoRoundTrip
    /\ UNCHANGED <<phase, configVars, engineVars, envVars, appVars>>

\* The device resets: retained memory keeps its bytes; the buffers of the
\* EEPROM and file backends are new objects whose bytes are not yet written.
StoreRestart ==
    /\ phase = "run"
    /\ phase' = "boot"
    /\ jsonObj' = InvalidJSONValue
    /\ IF storageKind = "Retained"
       THEN UNCHANGED <<header, jsonData>>
       ELSE /\ header' = ZeroHeader
            /\ jsonData' = Fill(dataSize, 0)
    /\ sop' = [NoStoreOp(dataSize) EXCEPT !.name = "restart"]
    /\ rt' = IF rt.stage = "updated"
             THEN [rt EXCEPT !.stage = "restarted"]
             ELSE NoRoundTrip
    /\ crashed' = FALSE
    /\ UNCHANGED <<storageKind, dataSize, medium>>
    /\ UNCHANGED <<configVars, stateHandler, stateTime, updateDataStatus,
                   eop, hist, envVars, appVars>>

NextStore == StoreSetup \/ StoreUpdateData \/ StoreRestart

SpecStore == InitStore /\ [][NextStore]_vars

\* ------------------------------------------------------------------------
\* CloudConfig: setup, loop and its state handlers, updateData,
\* updateDataFailed
\* ------------------------------------------------------------------------

\* Time.now(): seconds, advancing with the monotonic clock.
TimeNow == epoch + (millis \div 1000)

\* The store is left alone by this step.
StoreUntouched ==
    /\ sop' = NoStoreOp(dataSize)
    /\ UNCHANGED <<storageKind, dataSize, header, jsonData, jsonObj, medium, rt>>

\* The world outside the process does not move in this step.
EnvUnchanged == UNCHANGED <<millis, epoch, timeValid, restarts, appVars>>

\* The same for a step in which the engine calls its update method.
ClockUnchanged == UNCHANGED <<millis, epoch, timeValid, restarts, query>>

\* The history of the run takes in what this step of the engine did.
Recorded ==
    hist' =
      [starts |->
         IF stateHandler' = "stateStartUpdate" /\ stateHandler # "stateStartUpdate"
         THEN hist.starts + 1
         ELSE hist.starts,
       startTicks |->
         IF eop'.handler = "stateStart"
         THEN hist.startTicks + 1
         ELSE hist.startTicks,
       hadData |->
         IF eop'.name = "setup"
         THEN HasJsonData(jsonData')
         ELSE hist.hadData /\ HasJsonData(jsonData'),
       replied |->
         IF eop'.started
         THEN updateDataStatus' # "IN_PROGRESS"
         ELSE hist.replied \/ eop'.name \in {"updateData", "updateDataFailed"},
       notified |->
         IF eop'.started
         THEN eop'.called
         ELSE hist.notified \/ eop'.called,
       lastStart |->
         IF eop'.started THEN TimeNow ELSE hist.lastStart,
       late |->
         eop'.name = "updateData" /\ updateDataStatus = "TIMEOUT",
       lastEval |->
         IF stateHandler' # "stateWaitToUpdate"
         THEN -1
         ELSE IF /\ eop'.handler = "stateWaitToUpdate"
                 /\ millis - stateTime >= WaitToUpdateCheckMs
              THEN millis
              ELSE hist.lastEval,
       answered |->
         IF eop'.started
         THEN FALSE
         ELSE \/ hist.answered
              \/ /\ eop'.name = "updateData"
                 /\ stateHandler = "stateWaitUpdateComplete"
                 /\ updateDataStatus = "IN_PROGRESS",
       owed |->
         IF updateDataStatus' = "TIMEOUT" /\ updateDataStatus # "TIMEOUT"
         THEN TRUE
         ELSE IF eop'.name \in {"updateData", "updateDataFailed"}
              THEN FALSE
              ELSE hist.owed,
       crossed |->
         IF eop'.started
         THEN FALSE
         ELSE \/ hist.crossed
              \/ /\ eop'.name = "updateData"
                 /\ hist.owed
                 /\ stateHandler = "stateWaitUpdateComplete"
                 /\ updateDataStatus = "IN_PROGRESS",
       lastStartMs |->
         IF eop'.started THEN millis ELSE hist.lastStartMs,
       sync |->
         IF eop'.started
         THEN updateDataStatus' # "IN_PROGRESS"
         ELSE hist.sync,
       policyChanges |->
         IF eop'.name = "withUpdateFrequency"
         THEN hist.policyChanges + 1
         ELSE hist.policyChanges,
       configured |->
         IF eop'.name = "setup" THEN updateFrequency ELSE hist.configured]

\* setup() of the storage method in use; CloudConfigStorageStatic::setup
\* only parses.
StorageMethodSetup(io, garbage) ==
    IF storageKind = "Static"
    THEN /\ jsonObj' \in ParseOutcomes(jsonData)
         /\ sop' = [NoStoreOp(dataSize) EXCEPT !.name = "setup", !.loaded = TRUE]
         /\ UNCHANGED <<storageKind, dataSize, header, jsonData, medium,
                        crashed>>
    ELSE StorageSetup(io, garbage)

\* updateData(json) of the storage method in use; the base class method,
\* which CloudConfigStorageStatic inherits, only returns false.
StorageMethodUpdateData(hdr, json, io) ==
    IF storageKind = "Static"
    THEN /\ sop' = [NoStoreOp(dataSize) EXCEPT
                       !.name = "updateData", !.json = json,
                       !.again = SameCallAgain(sop, json)]
         /\ header' = hdr
         /\ UNCHANGED <<storageKind, dataSize, jsonData, jsonObj, medium>>
    ELSE StorageUpdateData(hdr, json, io)

\* A setup() that starts the state machine without asking for the update
\* method.
CloudConfigSetup_AlwaysStarts ==
    /\ phase = "boot"
    /\ phase' = "run"
    /\ IF storageKind = "None"
       THEN /\ sop' = NoStoreOp(dataSize)
            /\ UNCHANGED <<storageKind, dataSize, header, jsonData, jsonObj,
                           medium, stateHandler, crashed,
                           updateMethod>>
       ELSE /\ \E io \in ReadOutcomes(storageKind, dataSize) :
               \E garbage \in UnwrittenMemory(storageKind, dataSize, io) :
                  StorageMethodSetup(io, garbage)
            /\ updateMethod' = IF hasUpdateMethod /\ ~crashed'
                               THEN UpdateMethodSetup(updateMethod)
                               ELSE updateMethod
            /\ stateHandler' = IF crashed' THEN stateHandler ELSE "stateStart"
    /\ eop' = [NoEngineOp EXCEPT !.name = "setup"]
    /\ UNCHANGED <<rt, configVars, stateTime, updateDataStatus>>
    /\ ClockUnchanged
    /\ Recorded

\* CloudConfig::setup(): setup() of the storage method, then, with an
\* update method, its setup() and the start of the state machine.
CloudConfigSetup ==
    /\ phase = "boot"
    /\ phase' = "run"
    /\ IF storageKind = "None"
       THEN /\ sop' = NoStoreOp(dataSize)
            /\ UNCHANGED <<storageKind, dataSize, header, jsonData, jsonObj,
                           medium, stateHandler, crashed,
                           updateMethod>>
       ELSE /\ \E io \in ReadOutcomes(storageKind, dataSize) :
               \E garbage \in UnwrittenMemory(storageKind, dataSize, io) :
                  StorageMethodSetup(io, garbage)
            /\ updateMethod' = IF hasUpdateMethod /\ ~crashed'
                               THEN UpdateMethodSetup(updateMethod)
                               ELSE updateMethod
            /\ stateHandler' = IF hasUpdateMethod /\ ~crashed'
                               THEN "stateStart"
                               ELSE stateHandler
    /\ eop' = [NoEngineOp EXCEPT !.name = "setup"]
    /\ UNCHANGED <<rt, configVars, stateTime, updateDataStatus>>
    /\ ClockUnchanged
    /\ Recorded

\* A call of loop() can run: setup() was called and the process is alive.
LoopRuns == phase = "run" /\ ~crashed

\* CloudConfig::loop() without a storage method: storageMethod->loop() is a
\* call through a null pointer.
LoopWithoutStorage ==
    /\ LoopRuns
    /\ storageKind = "None"
    /\ crashed' = TRUE
    /\ eop' = [NoEngineOp EXCEPT !.name = "loop"]
    /\ StoreUntouched
    /\ UNCHANGED <<phase, configVars, stateHandler, stateTime, updateDataStatus>>
    /\ EnvUnchanged
    /\ Recorded

\* CloudConfig::loop() while no state handler is set.
LoopWithoutHandler ==
    /\ LoopRuns
    /\ storageKind # "None"
    /\ stateHandler = "none"
    /\ eop' = [NoEngineOp EXCEPT !.name = "loop"]
    /\ StoreUntouched
    /\ UNCHANGED <<phase, configVars, stateHandler, stateTime,
                   updateDataStatus, crashed>>
    /\ EnvUnchanged
    /\ Recorded

\* loop() dispatches to the state handler h.
LoopInState(h) ==
    /\ LoopRuns
    /\ storageKind # "None"
    /\ stateHandler = h

\* A stateStart that calls the data callback without asking the store.
StateStart_AlwaysNotifies ==
    /\ LoopInState("stateStart")
    /\ eop' = [NoEngineOp EXCEPT
                  !.name = "loop", !.handler = "stateStart",
                  !.called = hasCallback]
    /\ stateHandler' = "stateWaitCloudConnected"
    /\ StoreUntouched
    /\ UNCHANGED <<phase, configVars, stateTime, updateDataStatus, crashed>>
    /\ EnvUnchanged
    /\ Recorded

\* CloudConfig::stateStart
StateStart ==
    /\ LoopInState("stateStart")
    /\ eop' = [NoEngineOp EXCEPT
                  !.name = "loop", !.handler = "stateStart",
                  !.called = (HasJsonData(jsonData) /\ hasCallback)]
    /\ stateHandler' = "stateWaitCloudConnected"
    /\ StoreUntouched
    /\ UNCHANGED <<phase, configVars, stateTime, updateDataStatus, crashed>>
    /\ EnvUnchanged
    /\ Recorded

\* CloudConfig::stateWaitCloudConnected; connected is what
\* Particle.connected() answers this time.
StateWaitCloudConnected ==
    /\ LoopInState("stateWaitCloudConnected")
    /\ eop' = [NoEngineOp EXCEPT
                  !.name = "loop", !.handler = "stateWaitCloudConnected"]
    /\ \E connected \in BOOLEAN :
          IF ~connected \/ ~timeValid
          THEN UNCHANGED <<stateHandler, stateTime>>
          ELSE /\ stateHandler' = "stateWaitAfterCloudConnected"
               /\ stateTime' = millis
    /\ StoreUntouched
    /\ UNCHANGED <<phase, configVars, updateDataStatus, crashed>>
    /\ EnvUnchanged
    /\ Recorded

\* A stateWaitAfterCloudConnected that goes to stateWaitToUpdate without
\* taking the time.
StateWaitAfterCloudConnected_KeepsStateTime ==
    /\ LoopInState("stateWaitAfterCloudConnected")
    /\ eop' = [NoEngineOp EXCEPT
                  !.name = "loop", !.handler = "stateWaitAfterCloudConnected"]
    /\ IF millis - stateTime < waitAfterCloudConnectedMs
       THEN UNCHANGED <<stateHandler, stateTime>>
       ELSE IF ~HasJsonData(jsonData) \/ updateFrequency = UPDATE_AT_RESTART
            THEN /\ stateHandler' = "stateStartUpdate"
                 /\ UNCHANGED stateTime
            ELSE /\ stateHandler' = "stateWaitToUpdate"
                 /\ UNCHANGED stateTime
    /\ StoreUntouched
    /\ UNCHANGED <<phase, configVars, updateDataStatus, crashed>>
    /\ EnvUnchanged
    /\ Recorded

\* A stateWaitAfterCloudConnected that looks at the store alone, not at the
\* policy.
StateWaitAfterCloudConnected_DataOnly ==
    /\ LoopInState("stateWaitAfterCloudConnected")
    /\ eop' = [NoEngineOp EXCEPT
                  !.name = "loop", !.handler = "stateWaitAfterCloudConnected"]
    /\ IF millis - stateTime < waitAfterCloudConnectedMs
       THEN UNCHANGED <<stateHandler, stateTime>>
       ELSE IF ~HasJsonData(jsonData)
            THEN /\ stateHandler' = "stateStartUpdate"
                 /\ UNCHANGED stateTime
            ELSE /\ stateTime' = millis
                 /\ stateHandler' = "stateWaitToUpdate"
    /\ StoreUntouched
    /\ UNCHANGED <<phase, configVars, updateDataStatus, crashed>>
    /\ EnvUnchanged
    /\ Recorded

\* CloudConfig::stateWaitAfterCloudConnected
StateWaitAfterCloudConnected ==
    /\ LoopInState("stateWaitAfterCloudConnected")
    /\ eop' = [NoEngineOp EXCEPT
                  !.name = "loop", !.handler = "stateWaitAfterCloudConnected"]
    /\ IF millis - stateTime < waitAfterCloudConnectedMs
       THEN UNCHANGED <<stateHandler, stateTime>>
       ELSE IF ~HasJsonData(jsonData) \/ updateFrequency = UPDATE_AT_RESTART
            THEN /\ stateHandler' = "stateStartUpdate"
                 /\ UNCHANGED stateTime
            ELSE /\ stateTime' = millis
                 /\ stateHandler' = "stateWaitToUpdate"
    /\ StoreUntouched
    /\ UNCHANGED <<phase, configVars, updateDataStatus, crashed>>
    /\ EnvUnchanged
    /\ Recorded

\* A stateWaitToUpdate that compares lastCheck whatever the policy is.
StateWaitToUpdate_AnyPolicy ==
    /\ LoopInState("stateWaitToUpdate")
    /\ eop' = [NoEngineOp EXCEPT
                  !.name = "loop", !.handler = "stateWaitToUpdate"]
    /\ IF millis - stateTime < WaitToUpdateCheckMs
       THEN UNCHANGED <<stateHandler, crashed>>
       ELSE IF timeValid
            THEN IF storageKind \notin DataKinds
                 THEN \/ /\ crashed' = TRUE
                         /\ UNCHANGED stateHandler
                      \/ /\ stateHandler' \in {"stateStartUpdate", stateHandler}
                         /\ UNCHANGED crashed
                 ELSE /\ stateHandler' =
                            IF TimeNow - header.lastCheck > updateFrequency
                            THEN "stateStartUpdate"
                            ELSE stateHandler
                      /\ UNCHANGED crashed
            ELSE UNCHANGED <<stateHandler, crashed>>
    /\ StoreUntouched
    /\ UNCHANGED <<phase, configVars, stateTime, updateDataStatus>>
    /\ EnvUnchanged
    /\ Recorded

\* A stateWaitToUpdate that starts the update as soon as the interval is
\* reached, not once it is exceeded.
StateWaitToUpdate_NotStrict ==
    /\ LoopInState("stateWaitToUpdate")
    /\ eop' = [NoEngineOp EXCEPT
                  !.name = "loop", !.handler = "stateWaitToUpdate"]
    /\ IF millis - stateTime < WaitToUpdateCheckMs
       THEN UNCHANGED <<stateHandler, crashed>>
       ELSE IF timeValid /\ updateFrequency > 0
            THEN IF storageKind \notin DataKinds
                 THEN \/ /\ crashed' = TRUE
                         /\ UNCHANGED stateHandler
                      \/ /\ stateHandler' \in {"stateStartUpdate", stateHandler}
                         /\ UNCHANGED crashed
                 ELSE /\ stateHandler' =
                            IF TimeNow - header.lastCheck >= updateFrequency
                            THEN "stateStartUpdate"
                            ELSE stateHandler
                      /\ UNCHANGED crashed
            ELSE UNCHANGED <<stateHandler, crashed>>
    /\ StoreUntouched
    /\ UNCHANGED <<phase, configVars, stateTime, updateDataStatus>>
    /\ EnvUnchanged
    /\ Recorded

\* A stateWaitToUpdate that marks the fetch as in progress when it decides
\* to start one.
StateWaitToUpdate_MarksInProgress ==
    /\ LoopInState("stateWaitToUpdate")
    /\ eop' = [NoEngineOp EXCEPT
                  !.name = "loop", !.handler = "stateWaitToUpdate"]
    /\ IF millis - stateTime < WaitToUpdateCheckMs
       THEN UNCHANGED <<stateHandler, crashed>>
       ELSE IF timeValid /\ updateFrequency > 0
            THEN IF storageKind \notin DataKinds
                 THEN \/ /\ crashed' = TRUE
                         /\ UNCHANGED stateHandler
                      \/ /\ stateHandler' \in {"stateStartUpdate", stateHandler}
                         /\ UNCHANGED crashed
                 ELSE /\ stateHandler' =
                            IF TimeNow - header.lastCheck > updateFrequency
                            THEN "stateStartUpdate"
                            ELSE stateHandler
                      /\ UNCHANGED crashed
            ELSE UNCHANGED <<stateHandler, crashed>>
    /\ StoreUntouched
    /\ updateDataStatus' = IF stateHandler' = "stateStartUpdate"
                           THEN "IN_PROGRESS"
                           ELSE updateDataStatus
    /\ UNCHANGED <<phase, configVars, stateTime>>
    /\ EnvUnchanged
    /\ Recorded

\* A stateWaitToUpdate that does not wait before it looks at lastCheck.
StateWaitToUpdate_NoWait ==
    /\ LoopInState("stateWaitToUpdate")
    /\ eop' = [NoEngineOp EXCEPT
                  !.name = "loop", !.handler = "stateWaitToUpdate"]
    /\ IF FALSE
       THEN UNCHANGED <<stateHandler, crashed>>
       ELSE IF timeValid /\ updateFrequency > 0
            THEN IF storageKind \notin DataKinds
                 THEN \/ /\ crashed' = TRUE
                         /\ UNCHANGED stateHandler
                      \/ /\ stateHandler' \in {"stateStartUpdate", stateHandler}
                         /\ UNCHANGED crashed
                 ELSE /\ stateHandler' =
                            IF TimeNow - header.lastCheck > updateFrequency
                            THEN "stateStartUpdate"
                            ELSE stateHandler
                      /\ UNCHANGED crashed
            ELSE UNCHANGED <<stateHandler, crashed>>
    /\ StoreUntouched
    /\ UNCHANGED <<phase, configVars, stateTime, updateDataStatus>>
    /\ EnvUnchanged
    /\ Recorded

\* CloudConfig::stateWaitToUpdate.  A storage method without a header
\* returns a null pointer from getDataHeader(); reading lastCheck through it
\* ends the run, or gives whatever bytes lie there and so either branch.
StateWaitToUpdate ==
    /\ LoopInState("stateWaitToUpdate")
    /\ eop' = [NoEngineOp EXCEPT
                  !.name = "loop", !.handler = "stateWaitToUpdate"]
    /\ IF millis - stateTime < WaitToUpdateCheckMs
       THEN UNCHANGED <<stateHandler, crashed>>
       ELSE IF timeValid /\ updateFrequency > 0
            THEN IF storageKind \notin DataKinds
                 THEN \/ /\ crashed' = TRUE
                         /\ UNCHANGED stateHandler
                      \/ /\ stateHandler' \in {"stateStartUpdate", stateHandler}
                         /\ UNCHANGED crashed
                 ELSE /\ stateHandler' =
                            IF TimeNow - header.lastCheck > updateFrequency
                            THEN "stateStartUpdate"
                            ELSE stateHandler
                      /\ UNCHANGED crashed
            ELSE UNCHANGED <<stateHandler, crashed>>
    /\ StoreUntouched
    /\ UNCHANGED <<phase, configVars, stateTime, updateDataStatus>>
    /\ EnvUnchanged
    /\ Recorded

\* The value CloudConfig::updateData returns, stored being what the
\* storage method's updateData returned.
UpdateDataReturns(stored) == TRUE

\* A CloudConfig::updateData that takes the arrival of a payload for a
\* check and writes lastCheck.
EngineUpdateData_StampsLastCheck(hdr, json, io, op) ==
    /\ updateDataStatus' = "SUCCESS"
    /\ IF storageKind = "None"
       THEN /\ StoreUntouched
            /\ eop' = [op EXCEPT !.ret = TRUE]
       ELSE /\ StorageMethodUpdateData([hdr EXCEPT !.lastCheck = TimeNow],
                                       json, io)
            /\ rt' = rt
            /\ eop' = [op EXCEPT !.ret = TRUE, !.called = hasCallback]

\* CloudConfig::updateData(json), called while the header in memory is hdr:
\* the status, the store, the callback.  op is the record of the step the
\* call is part of.
EngineUpdateData(hdr, json, io, op) ==
    /\ updateDataStatus' = "SUCCESS"
    /\ IF storageKind = "None"
       THEN /\ StoreUntouched
            /\ eop' = [op EXCEPT !.ret = UpdateDataReturns(FALSE)]
       ELSE /\ StorageMethodUpdateData(hdr, json, io)
            /\ rt' = rt
            /\ eop' = [op EXCEPT !.ret = UpdateDataReturns(sop'.ret),
                                 !.called = hasCallback]

\* A stateStartUpdate that does not write lastCheck.
StateStartUpdate_KeepsLastCheck ==
    /\ LoopInState("stateStartUpdate")
    /\ \/ /\ storageKind \notin DataKinds
          /\ crashed' = TRUE
          /\ eop' = [NoEngineOp EXCEPT
                        !.name = "loop", !.handler = "stateStartUpdate"]
          /\ StoreUntouched
          /\ UNCHANGED <<stateHandler, stateTime, updateDataStatus,
                         updateMethod>>
       \/ /\ stateTime' = millis
          /\ stateHandler' = "stateWaitUpdateComplete"
          /\ UNCHANGED crashed
          /\ updateMethod' = UpdateMethodStartUpdate(updateMethod)
          /\ LET checked == header
                 op == [NoEngineOp EXCEPT
                           !.name = "loop", !.handler = "stateStartUpdate",
                           !.started = TRUE]
             IN  \/ /\ updateDataStatus' \in StartUpdateLeaves(updateMethod)
                    /\ header' = checked
                    /\ sop' = NoStoreOp(dataSize)
                    /\ eop' = op
                    /\ UNCHANGED <<storageKind, dataSize, jsonData,
                                   jsonObj, medium, rt>>
                 \/ \E json \in StartUpdatePayloads(updateMethod,
                                                   EnginePayloads(dataSize)) :
                    \E io \in WriteOutcomes(storageKind, dataSize) :
                       EngineUpdateData(checked, json, io, op)
    /\ UNCHANGED <<phase, configVars>>
    /\ ClockUnchanged
    /\ Recorded

\* A stateStartUpdate that goes on to stateWaitToUpdate in the same tick
\* when startUpdate() has the answer at once.
StateStartUpdate_FallsThrough ==
    /\ LoopInState("stateStartUpdate")
    /\ \/ /\ storageKind \notin DataKinds
          /\ crashed' = TRUE
          /\ eop' = [NoEngineOp EXCEPT
                        !.name = "loop", !.handler = "stateStartUpdate"]
          /\ StoreUntouched
          /\ UNCHANGED <<stateHandler, stateTime, updateDataStatus,
                         updateMethod>>
       \/ /\ stateTime' = millis
          /\ UNCHANGED crashed
          /\ updateMethod' = UpdateMethodStartUpdate(updateMethod)
          /\ LET checked == IF storageKind \in DataKinds
                            THEN [header EXCEPT !.lastCheck = TimeNow]
                            ELSE header
                 op == [NoEngineOp EXCEPT
                           !.name = "loop", !.handler = "stateStartUpdate",
                           !.started = TRUE]
             IN  \/ /\ updateDataStatus' \in StartUpdateLeaves(updateMethod)
                    /\ header' = checked
                    /\ sop' = NoStoreOp(dataSize)
                    /\ eop' = op
                    /\ UNCHANGED <<storageKind, dataSize, jsonData,
                                   jsonObj, medium, rt>>
                 \/ \E json \in StartUpdatePayloads(updateMethod,
                                                   EnginePayloads(dataSize)) :
                    \E io \in WriteOutcomes(storageKind, dataSize) :
                       EngineUpdateData(checked, json, io, op)
          /\ stateHandler' = IF updateDataStatus' = "IN_PROGRESS"
                             THEN "stateWaitUpdateComplete"
                             ELSE "stateWaitToUpdate"
    /\ UNCHANGED <<phase, configVars>>
    /\ ClockUnchanged
    /\ Recorded

\* A stateStartUpdate that sets the status to IN_PROGRESS after the call
\* of startUpdate(), over what the call has reported.
StateStartUpdate_MarksAfterCall ==
    /\ LoopInState("stateStartUpdate")
    /\ \/ /\ storageKind \notin DataKinds
          /\ crashed' = TRUE
          /\ eop' = [NoEngineOp EXCEPT
                        !.name = "loop", !.handler = "stateStartUpdate"]
          /\ StoreUntouched
          /\ UNCHANGED <<stateHandler, stateTime, updateDataStatus,
                         updateMethod>>
       \/ /\ stateTime' = millis
          /\ stateHandler' = "stateWaitUpdateComplete"
          /\ UNCHANGED crashed
          /\ updateMethod' = UpdateMethodStartUpdate(updateMethod)
          /\ LET checked == IF storageKind \in DataKinds
                            THEN [header EXCEPT !.lastCheck = TimeNow]
                            ELSE header
                 op == [NoEngineOp EXCEPT
                           !.name = "loop", !.handler = "stateStartUpdate",
                           !.started = TRUE]
             IN  \/ /\ updateDataStatus' = "IN_PROGRESS"
                    /\ header' = checked
                    /\ sop' = NoStoreOp(dataSize)
                    /\ eop' = op
                    /\ UNCHANGED <<storageKind, dataSize, jsonData,
                                   jsonObj, medium, rt>>
                 \/ \E json \in StartUpdatePayloads(updateMethod,
                                                   EnginePayloads(dataSize)) :
                    \E io \in WriteOutcomes(storageKind, dataSize) :
                       /\ updateDataStatus' = "IN_PROGRESS"
                       /\ StorageMethodUpdateData(checked, json, io)
                       /\ rt' = rt
                       /\ eop' = [op EXCEPT !.ret = TRUE,
                                            !.called = hasCallback]
    /\ UNCHANGED <<phase, configVars>>
    /\ ClockUnchanged
    /\ Recorded

\* CloudConfig::stateStartUpdate, with the call of startUpdate() of the
\* update method: the webhook method publishes its request; an
\* application's own method does nothing yet (the status stays
\* IN_PROGRESS), or calls updateDataFailed(), or calls updateData(json).
\* With a storage method without a header, lastCheck is written through a
\* null pointer: the run ends there, or the write lands outside the objects
\* of the library and the handler goes on.
StateStartUpdate ==
    /\ LoopInState("stateStartUpdate")
    /\ \/ /\ storageKind \notin DataKinds
          /\ crashed' = TRUE
          /\ eop' = [NoEngineOp EXCEPT
                        !.name = "loop", !.handler = "stateStartUpdate"]
          /\ StoreUntouched
          /\ UNCHANGED <<stateHandler, stateTime, updateDataStatus,
                         updateMethod>>
       \/ /\ stateTime' = millis
          /\ stateHandler' = "stateWaitUpdateComplete"
          /\ UNCHANGED crashed
          /\ updateMethod' = UpdateMethodStartUpdate(updateMethod)
          /\ LET checked == IF storageKind \in DataKinds
                            THEN [header EXCEPT !.lastCheck = TimeNow]
                            ELSE header
                 op == [NoEngineOp EXCEPT
                           !.name = "loop", !.handler = "stateStartUpdate",
                           !.started = TRUE]
             IN  \/ /\ updateDataStatus' \in StartUpdateLeaves(updateMethod)
                    /\ header' = checked
                    /\ sop' = NoStoreOp(dataSize)
                    /\ eop' = op
                    /\ UNCHANGED <<storageKind, dataSize, jsonData,
                                   jsonObj, medium, rt>>
                 \/ \E json \in StartUpdatePayloads(updateMethod,
                                                   EnginePayloads(dataSize)) :
                    \E io \in WriteOutcomes(storageKind, dataSize) :
                       EngineUpdateData(checked, json, io, op)
    /\ UNCHANGED <<phase, configVars>>
    /\ ClockUnchanged
    /\ Recorded

\* A stateWaitUpdateComplete that starts the next update as soon as this one
\* has ended.
StateWaitUpdateComplete_RetriesAtOnce ==
    /\ LoopInState("stateWaitUpdateComplete")
    /\ eop' = [NoEngineOp EXCEPT
                  !.name = "loop", !.handler = "stateWaitUpdateComplete"]
    /\ IF updateDataStatus = "IN_PROGRESS"
       THEN IF millis - stateTime > updateTimeoutMs
            THEN /\ updateDataStatus' = "TIMEOUT"
                 /\ stateTime' = millis
                 /\ stateHandler' = "stateStartUpdate"
            ELSE UNCHANGED <<updateDataStatus, stateTime, stateHandler>>
       ELSE /\ stateTime' = millis
            /\ stateHandler' = "stateStartUpdate"
            /\ UNCHANGED updateDataStatus
    /\ StoreUntouched
    /\ UNCHANGED <<phase, configVars, crashed>>
    /\ EnvUnchanged
    /\ Recorded

\* A stateWaitUpdateComplete that does not take the time when the fetch
\* times out.
StateWaitUpdateComplete_TimeoutKeepsStateTime ==
    /\ LoopInState("stateWaitUpdateComplete")
    /\ eop' = [NoEngineOp EXCEPT
                  !.name = "loop", !.handler = "stateWaitUpdateComplete"]
    /\ IF updateDataStatus = "IN_PROGRESS"
       THEN IF millis - stateTime > updateTimeoutMs
            THEN /\ updateDataStatus' = "TIMEOUT"
                 /\ stateHandler' = "stateWaitToUpdate"
                 /\ UNCHANGED stateTime
            ELSE UNCHANGED <<updateDataStatus, stateTime, stateHandler>>
       ELSE /\ stateTime' = millis
            /\ stateHandler' = "stateWaitToUpdate"
            /\ UNCHANGED updateDataStatus
    /\ StoreUntouched
    /\ UNCHANGED <<phase, configVars, crashed>>
    /\ EnvUnchanged
    /\ Recorded

\* A stateWaitUpdateComplete that looks at the time before it looks at the
\* status.
StateWaitUpdateComplete_TimeoutFirst ==
    /\ LoopInState("stateWaitUpdateComplete")
    /\ eop' = [NoEngineOp EXCEPT
                  !.name = "loop", !.handler = "stateWaitUpdateComplete"]
    /\ IF millis - stateTime > updateTimeoutMs
       THEN /\ updateDataStatus' = "TIMEOUT"
            /\ stateTime' = millis
            /\ stateHandler' = "stateWaitToUpdate"
       ELSE IF updateDataStatus = "IN_PROGRESS"
            THEN UNCHANGED <<updateDataStatus, stateTime, stateHandler>>
            ELSE /\ stateTime' = millis
                 /\ stateHandler' = "stateWaitToUpdate"
                 /\ UNCHANGED updateDataStatus
    /\ StoreUntouched
    /\ UNCHANGED <<phase, configVars, crashed>>
    /\ EnvUnchanged
    /\ Recorded

\* A stateWaitUpdateComplete without the timeout.
StateWaitUpdateComplete_NeverTimesOut ==
    /\ LoopInState("stateWaitUpdateComplete")
    /\ eop' = [NoEngineOp EXCEPT
                  !.name = "loop", !.handler = "stateWaitUpdateComplete"]
    /\ IF updateDataStatus = "IN_PROGRESS"
       THEN UNCHANGED <<updateDataStatus, stateTime, stateHandler>>
       ELSE /\ stateTime' = millis
            /\ stateHandler' = "stateWaitToUpdate"
            /\ UNCHANGED updateDataStatus
    /\ StoreUntouched
    /\ UNCHANGED <<phase, configVars, crashed>>
    /\ EnvUnchanged
    /\ Recorded

\* CloudConfig::stateWaitUpdateComplete
StateWaitUpdateComplete ==
    /\ LoopInState("stateWaitUpdateComplete")
    /\ eop' = [NoEngineOp EXCEPT
                  !.name = "loop", !.handler = "stateWaitUpdateComplete"]
    /\ IF updateDataStatus = "IN_PROGRESS"
       THEN IF millis - stateTime > updateTimeoutMs
            THEN /\ updateDataStatus' = "TIMEOUT"
                 /\ stateTime' = millis
                 /\ stateHandler' = "stateWaitToUpdate"
            ELSE UNCHANGED <<updateDataStatus, stateTime, stateHandler>>
       ELSE /\ stateTime' = millis
            /\ stateHandler' = "stateWaitToUpdate"
            /\ UNCHANGED updateDataStatus
    /\ StoreUntouched
    /\ UNCHANGED <<phase, configVars, crashed>>
    /\ EnvUnchanged
    /\ Recorded

\* An updateData that drops the payload when the fetch it answers has
\* timed out.
UpdateData_DropsLateReply ==
    /\ LoopRuns
    /\ IF updateDataStatus = "TIMEOUT"
       THEN /\ StoreUntouched
            /\ eop' = [NoEngineOp EXCEPT !.name = "updateData", !.ret = TRUE]
            /\ UNCHANGED updateDataStatus
       ELSE \E json \in EnginePayloads(dataSize) :
            \E io \in WriteOutcomes(storageKind, dataSize) :
               EngineUpdateData(header, json, io,
                                [NoEngineOp EXCEPT !.name = "updateData"])
    /\ UNCHANGED <<phase, configVars, stateHandler, stateTime, crashed>>
    /\ EnvUnchanged
    /\ Recorded

\* An updateData that takes a payload for the answer to the fetch that
\* timed out, when there is one, and leaves the fetch in flight open.
UpdateData_MatchesRequest ==
    /\ LoopRuns
    /\ IF hist.owed /\ updateDataStatus = "IN_PROGRESS"
       THEN /\ StoreUntouched
            /\ eop' = [NoEngineOp EXCEPT !.name = "updateData", !.ret = TRUE]
            /\ UNCHANGED updateDataStatus
       ELSE \E json \in EnginePayloads(dataSize) :
            \E io \in WriteOutcomes(storageKind, dataSize) :
               EngineUpdateData(header, json, io,
                                [NoEngineOp EXCEPT !.name = "updateData"])
    /\ UNCHANGED <<phase, configVars, stateHandler, stateTime, crashed>>
    /\ EnvUnchanged
    /\ Recorded

\* An updateData that takes the time, as the state handlers do when they
\* move on.
UpdateData_RestartsWait ==
    /\ LoopRuns
    /\ \E json \in EnginePayloads(dataSize) :
       \E io \in WriteOutcomes(storageKind, dataSize) :
          EngineUpdateData(header, json, io,
                           [NoEngineOp EXCEPT !.name = "updateData"])
    /\ stateTime' = millis
    /\ UNCHANGED <<phase, configVars, stateHandler, crashed>>
    /\ EnvUnchanged
    /\ Recorded

\* An update method, or the application, calls CloudConfig::updateData.
UpdateData ==
    /\ LoopRuns
    /\ \E json \in EnginePayloads(dataSize) :
       \E io \in WriteOutcomes(storageKind, dataSize) :
          EngineUpdateData(header, json, io,
                           [NoEngineOp EXCEPT !.name = "updateData"])
    /\ UNCHANGED <<phase, configVars, stateHandler, stateTime, crashed>>
    /\ EnvUnchanged
    /\ Recorded

\* An updateDataFailed that calls the data callback, as updateData does.
UpdateDataFailed_Notifies ==
    /\ LoopRuns
    /\ updateDataStatus' = "FAILURE"
    /\ eop' = [NoEngineOp EXCEPT !.name = "updateDataFailed",
                                 !.called = hasCallback]
    /\ StoreUntouched
    /\ UNCHANGED <<phase, configVars, stateHandler, stateTime, crashed>>
    /\ EnvUnchanged
    /\ Recorded

\* CloudConfig::updateDataFailed()
UpdateDataFailed ==
    /\ LoopRuns
    /\ updateDataStatus' = "FAILURE"
    /\ eop' = [NoEngineOp EXCEPT !.name = "updateDataFailed"]
    /\ StoreUntouched
    /\ UNCHANGED <<phase, configVars, stateHandler, stateTime, crashed>>
    /\ EnvUnchanged
    /\ Recorded

\* Calls of withUpdateFrequency() after setup() that are followed.
MaxPolicyChanges == 1

\* The policies an application sets while the engine runs: the two that
\* are no period, and a period shorter than the interval of the checks of
\* stateWaitToUpdate.
LaterFrequencies == {UPDATE_AT_RESTART, UPDATE_ONCE, 1}

\* CloudConfig::withUpdateFrequency(updateFrequency), in seconds or as a
\* chrono literal, withUpdateFrequencyOnce() and
\* withUpdateFrequencyAtRestart(), called after setup(): each stores its
\* value in updateFrequency.  A call that stores the value the field holds
\* leaves every field as it is.
WithUpdateFrequency ==
    /\ LoopRuns
    /\ hist.policyChanges < MaxPolicyChanges
    /\ \E frequency \in LaterFrequencies \ {updateFrequency} :
          updateFrequency' = frequency
    /\ eop' = [NoEngineOp EXCEPT !.name = "withUpdateFrequency"]
    /\ StoreUntouched
    /\ UNCHANGED <<phase, hasUpdateMethod, hasCallback,
                   waitAfterCloudConnectedMs, updateTimeoutMs, stateHandler,
                   stateTime, updateDataStatus, crashed>>
    /\ EnvUnchanged
    /\ Recorded

\* ------------------------------------------------------------------------
\* Properties of the store
\* ------------------------------------------------------------------------

\* C1: updateData accepts a payload exactly when its length is at most the
\* documented maximum JSON length, capacity - 1, and so rejects every
\* payload of length capacity or more.
C1_AcceptsUpToMaxJsonDataSize ==
    sop.name = "updateData" =>
        (sop.accepted <=> Len(sop.json) <= GetMaxJsonDataSize(dataSize))

\* C2: an updateData that rejects its payload as too large returns failure
\* and leaves the payload in memory, the header, the parsed tree and the
\* persisted bytes as they were.
C2_RejectLeavesStoreUntouched ==
    [][(sop'.name = "updateData" /\ ~sop'.accepted) =>
          /\ sop'.ret = FALSE
          /\ header' = header
          /\ jsonData' = jsonData
          /\ jsonObj' = jsonObj
          /\ Persisted' = Persisted]_vars

\* C2 witness: a payload was rejected while the store held a configuration.
C2_Witness ==
    /\ sop.name = "updateData"
    /\ ~sop.accepted
    /\ Len(sop.json) >= dataSize
    /\ HasJsonData(jsonData)

\* C4: after setup() the header is well formed whatever the medium held:
\* right magic, right header size, data size equal to the capacity; there is
\* no state after setup() with data and a header that fails validation.
C4_HeaderWellFormedAfterSetup ==
    phase = "run" =>
        /\ header.magic = DATA_MAGIC
        /\ header.headerSize = HeaderSize
        /\ header.dataSize = dataSize
        /\ ~(HasJsonData(jsonData) /\ ~HeaderLooksValid(header, dataSize))

\* C4 witness: setup() met a record whose header fails validation although
\* its payload area holds text.
C4_Witness ==
    /\ phase = "run"
    /\ sop.name = "setup"
    /\ ~HeaderLooksValid(sop.pre.header, dataSize)
    /\ HasJsonData(sop.pre.data)

\* C5: validate() leaves a record whose magic, header size and data size
\* all match untouched, and turns any other record into the canonical empty
\* record: right magic and sizes, every other field zero, payload all zero.
C5_ValidateKeepsOrWipes ==
    sop.name = "setup" =>
        IF /\ sop.pre.header.magic = DATA_MAGIC
           /\ sop.pre.header.headerSize = HeaderSize
           /\ sop.pre.header.dataSize = dataSize
        THEN Memory = sop.pre
        ELSE /\ header = [magic |-> DATA_MAGIC, headerSize |-> HeaderSize,
                          flags |-> 0, dataSize |-> dataSize, lastCheck |-> 0,
                          reserved2 |-> 0, reserved1 |-> 0]
             /\ \A i \in 1..dataSize : jsonData[i] = 0
             /\ ~HasJsonData(jsonData)

\* C5 witness: validate() met one mismatching field in a record whose other
\* fields and payload were set.
C5_Witness ==
    /\ sop.name = "setup"
    /\ sop.pre.header.magic = DATA_MAGIC
    /\ sop.pre.header.headerSize # HeaderSize
    /\ sop.pre.header.dataSize = dataSize
    /\ sop.pre.header.lastCheck # 0
    /\ HasJsonData(sop.pre.data)

\* C6 as stated: an accepted updateData(x), then a restart whose setup()
\* reloads the record from the medium, gives a store with payload x.
C6_RoundTripOfAccepted ==
    rt.stage = "reloaded" =>
        /\ CStr(jsonData) = rt.json
        /\ HasJsonData(jsonData) = (rt.json # <<>>)

\* C6 amended: the round trip holds when the save() of that updateData
\* wrote the record to the medium.
C6_RoundTripOfWritten ==
    (rt.stage = "reloaded" /\ rt.wrote) =>
        /\ CStr(jsonData) = rt.json
        /\ HasJsonData(jsonData) = (rt.json # <<>>)

\* C6 witness: a non-empty payload was written by a backend that has a
\* medium of its own and came back after the restart.
C6_Witness ==
    /\ rt.stage = "reloaded"
    /\ rt.wrote
    /\ rt.json # <<>>
    /\ storageKind \in {"EEPROM", "File"}

\* C7 as stated: a second updateData(x) right after updateData(x) changes
\* neither the record in memory, nor the persisted bytes, nor the parsed
\* tree, nor the value returned.
C7_SecondCallChangesNothing ==
    [][(sop'.name = "updateData" /\ sop'.again) =>
          /\ header' = header
          /\ jsonData' = jsonData
          /\ jsonObj' = jsonObj
          /\ sop'.ret = sop.ret
          /\ Persisted' = Persisted]_vars

\* C7 amended: the record in memory, the parsed tree and the value returned
\* are the same, and the persisted bytes are the same when the first call
\* was rejected or its save() wrote the record.
C7_SecondCallChangesNothingOnceWritten ==
    [][(sop'.name = "updateData" /\ sop'.again) =>
          /\ header' = header
          /\ jsonData' = jsonData
          /\ jsonObj' = jsonObj
          /\ sop'.ret = sop.ret
          /\ (sop.wrote \/ ~sop.accepted) => Persisted' = Persisted]_vars

\* C7 witness: the same non-empty payload was accepted twice in a row.
C7_Witness ==
    /\ sop.name = "updateData"
    /\ sop.again
    /\ sop.accepted
    /\ sop.wrote
    /\ sop.json # <<>>

\* C8: for an accepted payload updateData returns whether the persist step
\* wrote the record.
C8_ReturnsPersistResult ==
    (sop.name = "updateData" /\ sop.accepted) => (sop.ret = sop.wrote)

\* C9: when the persist step of an accepted payload fails, the payload in
\* memory and the parsed tree are those of the new payload.
C9_MemoryUpdatedWhenPersistFails ==
    (sop.name = "updateData" /\ sop.accepted /\ ~sop.wrote) =>
        /\ CStr(jsonData) = sop.json
        /\ jsonObj = ParseCopy(sop.json)

\* C9 witness: a non-empty payload was accepted and not written.
C9_Witness ==
    /\ sop.name = "updateData"
    /\ sop.accepted
    /\ ~sop.wrote
    /\ sop.json # <<>>

\* ------------------------------------------------------------------------
\* The engine with its store and its surroundings
\* ------------------------------------------------------------------------

\* Capacity of the store the engine runs with.
EngineDataSizes == {MaxDataSize}

\* Configured update policies: at restart, once, every 15 seconds.
UpdateFrequencies == {UPDATE_AT_RESTART, UPDATE_ONCE, 15}

\* Configured values of the two tunables: a whole number of time steps
\* each, and short enough for a fetch to time out twice within MaxMillis.
WaitAfterCloudConnectedChoices == {5000}

UpdateTimeoutChoices == {5000}

\* Time.now() when the device first boots.
InitialEpochs == {100}

\* How far the clock moves between two steps of the process.
TimeSteps == {5000}

\* The clock is followed up to here, in milliseconds since the first boot.
MaxMillis == 30000

\* Restarts followed.
MaxRestarts == 1

\* Records found at boot: nothing usable, or a valid record with data and
\* a lastCheck from the set given.
EngineRecords(cap, lastChecks) ==
    {ZeroRecord(cap)} \cup
    { [header |-> [EmptyHeader(cap) EXCEPT !.lastCheck = t],
       data |-> StrCpy(Fill(cap, 0), Fill(1, 1))] : t \in lastChecks }

\* The lastCheck values found at boot: long ago, and 5 seconds before boot
\* where the policy looks at it.
BootLastChecks(freq) == IF freq > 0 THEN {0, 95} ELSE {0}

\* The text of a CloudConfigStorageStatic, with its terminator.
StaticTexts == {<<0>>, <<1, 0>>}

\* The configuration and the surroundings at boot, the storage method
\* aside.
InitEngine ==
    /\ phase = "boot"
    /\ jsonObj = InvalidJSONValue
    /\ rt = NoRoundTrip
    /\ hasUpdateMethod \in BOOLEAN
    /\ hasCallback \in BOOLEAN
    /\ updateFrequency \in UpdateFrequencies
    /\ waitAfterCloudConnectedMs \in WaitAfterCloudConnectedChoices
    /\ updateTimeoutMs \in UpdateTimeoutChoices
    /\ epoch \in InitialEpochs
    /\ EngineIdle
    /\ AppIdle

\* The engine with no storage method, with static storage, or with the
\* EEPROM backend over a record of EngineRecords.  Without an update method
\* the state machine does not run, and one policy is followed.
Init ==
    /\ storageKind \in {"EEPROM", "Static", "None"}
    /\ InitEngine
    /\ ~hasUpdateMethod => (hasCallback /\ updateFrequency = UPDATE_ONCE)
    /\ CASE storageKind = "None" ->
              /\ hasCallback /\ updateFrequency = UPDATE_ONCE
              /\ dataSize = 1
              /\ header = ZeroHeader
              /\ jsonData = Fill(1, 0)
              /\ medium = MediumOf(ZeroRecord(1))
         [] storageKind = "Static" ->
              /\ hasCallback
              /\ jsonData \in StaticTexts
              /\ dataSize = Len(jsonData)
              /\ header = ZeroHeader
              /\ medium = MediumOf(ZeroRecord(dataSize))
         [] storageKind = "EEPROM" ->
              /\ dataSize \in EngineDataSizes
              /\ header = ZeroHeader
              /\ jsonData = Fill(dataSize, 0)
              /\ medium \in {MediumOf(r) : r \in
                    EngineRecords(dataSize, BootLastChecks(updateFrequency))}
    /\ sop = NoStoreOp(dataSize)

FirstEpoch == CHOOSE e \in InitialEpochs : \A f \in InitialEpochs : e <= f

\* Nothing of the process moves in this step of its surroundings.
ProcessUnchanged ==
    /\ StoreUntouched
    /\ eop' = NoEngineOp
    /\ UNCHANGED <<phase, configVars, stateHandler, stateTime,
                   updateDataStatus, crashed, hist, appVars>>

\* Time passes.
AdvanceTime ==
    /\ phase = "run"
    /\ \E d \in TimeSteps :
          /\ (TimeNow - FirstEpoch) * 1000 + d <= MaxMillis
          /\ millis' = millis + d
    /\ ProcessUnchanged
    /\ UNCHANGED <<epoch, timeValid, restarts>>

\* The clock is set.
TimeSynced ==
    /\ phase = "run"
    /\ ~timeValid
    /\ timeValid' = TRUE
    /\ ProcessUnchanged
    /\ UNCHANGED <<millis, epoch, restarts>>

\* The device resets and the firmware starts again: a new engine, a new
\* monotonic clock, the configuration the application sets before
\* setup(); the wall clock goes on.
Restart ==
    /\ phase = "run"
    /\ restarts < MaxRestarts
    /\ restarts' = restarts + 1
    /\ phase' = "boot"
    /\ jsonObj' = InvalidJSONValue
    /\ IF storageKind \in {"EEPROM", "File"}
       THEN /\ header' = ZeroHeader
            /\ jsonData' = Fill(dataSize, 0)
       ELSE UNCHANGED <<header, jsonData>>
    /\ sop' = [NoStoreOp(dataSize) EXCEPT !.name = "restart"]
    /\ stateHandler' = "none"
    /\ stateTime' = 0
    /\ updateDataStatus' = "IDLE"
    /\ crashed' = FALSE
    /\ eop' = NoEngineOp
    /\ hist' = [NoHistory EXCEPT !.lastStart = hist.lastStart,
                                 !.policyChanges = hist.policyChanges]
    /\ updateFrequency' = IF hist.policyChanges > 0
                          THEN hist.configured
                          ELSE updateFrequency
    /\ millis' = 0
    /\ epoch' = TimeNow
    /\ updateMethod' = Reconstructed(updateMethod)
    /\ UNCHANGED <<storageKind, dataSize, medium, rt, hasUpdateMethod,
                   hasCallback, waitAfterCloudConnectedMs, updateTimeoutMs,
                   timeValid, query>>

Next ==
    \/ CloudConfigSetup
    \/ WithUpdateFrequency
    \/ LoopWithoutStorage
    \/ LoopWithoutHandler
    \/ StateStart
    \/ StateWaitCloudConnected
    \/ StateWaitAfterCloudConnected
    \/ StateWaitToUpdate
    \/ StateStartUpdate
    \/ StateWaitUpdateComplete
    \/ UpdateData
    \/ UpdateDataFailed
    \/ AdvanceTime
    \/ TimeSynced

Spec == Init /\ [][Next]_vars

\* ------------------------------------------------------------------------
\* The engine across a restart
\* ------------------------------------------------------------------------

\* The engine with an update method and a periodic policy, over retained
\* memory and over the EEPROM, with a configuration stored by an earlier
\* run.
InitRestart ==
    /\ storageKind \in {"Retained", "EEPROM"}
    /\ InitEngine
    /\ hasUpdateMethod /\ hasCallback /\ updateFrequency = 15
    /\ dataSize \in EngineDataSizes
    /\ \E rec \in EngineRecords(dataSize, {95}) \ {ZeroRecord(dataSize)} :
          IF storageKind = "Retained"
          THEN /\ header = rec.header
               /\ jsonData = rec.data
               /\ medium = MediumOf(ZeroRecord(dataSize))
          ELSE /\ header = ZeroHeader
               /\ jsonData = Fill(dataSize, 0)
               /\ medium = MediumOf(rec)
    /\ sop = NoStoreOp(dataSize)

NextRestart ==
    \/ CloudConfigSetup
    \/ WithUpdateFrequency
    \/ StateStart
    \/ StateWaitCloudConnected
    \/ StateWaitAfterCloudConnected
    \/ StateWaitToUpdate
    \/ StateStartUpdate
    \/ StateWaitUpdateComplete
    \/ UpdateData
    \/ UpdateDataFailed
    \/ AdvanceTime
    \/ TimeSynced
    \/ Restart

SpecRestart == InitRestart /\ [][NextRestart]_vars

\* ------------------------------------------------------------------------
\* The engine under a short period
\* ------------------------------------------------------------------------

\* The engine with an update method and a policy of one second, shorter
\* than the wait of stateWaitToUpdate, over the EEPROM backend.
InitShort ==
    /\ storageKind = "EEPROM"
    /\ phase = "boot"
    /\ jsonObj = InvalidJSONValue
    /\ rt = NoRoundTrip
    /\ hasUpdateMethod = TRUE
    /\ hasCallback \in BOOLEAN
    /\ updateFrequency = 1
    /\ waitAfterCloudConnectedMs \in WaitAfterCloudConnectedChoices
    /\ updateTimeoutMs \in UpdateTimeoutChoices
    /\ epoch \in InitialEpochs
    /\ EngineIdle
    /\ AppIdle
    /\ dataSize \in EngineDataSizes
    /\ header = ZeroHeader
    /\ jsonData = Fill(dataSize, 0)
    /\ medium \in {MediumOf(r) : r \in EngineRecords(dataSize, {0, 95})}
    /\ sop = NoStoreOp(dataSize)

NextShort ==
    \/ CloudConfigSetup
    \/ WithUpdateFrequency
    \/ StateStart
    \/ StateWaitCloudConnected
    \/ StateWaitAfterCloudConnected
    \/ StateWaitToUpdate
    \/ StateStartUpdate
    \/ StateWaitUpdateComplete
    \/ UpdateData
    \/ UpdateDataFailed
    \/ AdvanceTime
    \/ TimeSynced

SpecShort == InitShort /\ [][NextShort]_vars

\* ------------------------------------------------------------------------
\* The engine with loop() called again and again
\* ------------------------------------------------------------------------

\* The longest time between two calls of loop().
TickIntervalMs == CHOOSE d \in TimeSteps : \A e \in TimeSteps : e <= d

\* The engine with an update method over the EEPROM backend.
InitLive ==
    /\ Init
    /\ storageKind = "EEPROM"
    /\ hasUpdateMethod

\* Time passes between two calls of loop(): the application calls loop()
\* from its own loop(), so the clock goes on by at most TickIntervalMs
\* before the next call.
AdvanceTimeAfterTick ==
    /\ eop.name = "loop"
    /\ AdvanceTime

NextLive ==
    \/ CloudConfigSetup
    \/ WithUpdateFrequency
    \/ StateStart
    \/ StateWaitCloudConnected
    \/ StateWaitAfterCloudConnected
    \/ StateWaitToUpdate
    \/ StateStartUpdate
    \/ StateWaitUpdateComplete
    \/ UpdateData
    \/ UpdateDataFailed
    \/ AdvanceTimeAfterTick
    \/ TimeSynced

\* loop() keeps being called while the engine waits for the fetch, and time
\* goes on after it.
SpecLive ==
    /\ InitLive
    /\ [][NextLive]_vars
    /\ WF_vars(StateWaitUpdateComplete)
    /\ WF_vars(AdvanceTimeAfterTick)

\* ------------------------------------------------------------------------
\* The tree accessor alone
\* ------------------------------------------------------------------------

\* Everything but the application's reads and the webhook: no storage
\* method, nothing set up.
RestIdle ==
    /\ storageKind = "None"
    /\ dataSize = 1
    /\ header = ZeroHeader
    /\ jsonData = Fill(1, 0)
    /\ jsonObj = InvalidJSONValue
    /\ medium = MediumOf(ZeroRecord(1))
    /\ phase = "boot"
    /\ sop = NoStoreOp(1)
    /\ rt = NoRoundTrip
    /\ hasUpdateMethod = FALSE
    /\ hasCallback = FALSE
    /\ updateFrequency = UPDATE_ONCE
    /\ waitAfterCloudConnectedMs = DefaultWaitAfterCloudConnectedMs
    /\ updateTimeoutMs = DefaultUpdateTimeoutMs
    /\ epoch = 0
    /\ EngineIdle

\* A parent value and an index below, at and beyond the number of members.
InitJson ==
    /\ RestIdle
    /\ updateMethod = DefaultWebhook("d1")
    /\ \E parent \in Parents : \E index \in 0..MaxElements :
          query = [NoQuery EXCEPT !.parent = parent, !.index = index]

\* The application calls getJSONValueAtIndex(parent, index).
GetJSONValueAtIndexCall ==
    /\ ~query.done
    /\ query' = [query EXCEPT
                   !.result = GetJSONValueAtIndex(query.parent, query.index),
                   !.done = TRUE]
    /\ UNCHANGED <<storeVars, configVars, engineVars, envVars, updateMethod>>

NextJson == GetJSONValueAtIndexCall

SpecJson == InitJson /\ [][NextJson]_vars

\* ------------------------------------------------------------------------
\* The engine with an update method of the library
\* ------------------------------------------------------------------------

\* The update method as the application constructs it: a function method
\* with a name, a subscription method with an event name, a webhook method
\* with no name or with one.
ConstructedUpdateMethods ==
    UNION { { [FunctionWithName(NewUpdateMethod("function", deviceId), n)
                  EXCEPT !.given = n, !.givenBy = "constructor"],
              [SubscriptionWithEventName(
                   NewUpdateMethod("subscription", deviceId), n)
                  EXCEPT !.given = n, !.givenBy = "constructor"],
              [WebhookWithName(deviceId, n)
                  EXCEPT !.given = n, !.givenBy = "constructor"],
              DefaultWebhook(deviceId) } :
            deviceId \in DeviceIds, n \in EventNames }

\* The engine over an empty EEPROM record, updating at each restart, with
\* one of the update methods of the library.
InitWebhook ==
    /\ storageKind = "EEPROM"
    /\ phase = "boot"
    /\ jsonObj = InvalidJSONValue
    /\ rt = NoRoundTrip
    /\ hasUpdateMethod = TRUE
    /\ hasCallback = FALSE
    /\ updateFrequency = UPDATE_AT_RESTART
    /\ waitAfterCloudConnectedMs \in WaitAfterCloudConnectedChoices
    /\ updateTimeoutMs \in UpdateTimeoutChoices
    /\ epoch \in InitialEpochs
    /\ EngineIdle
    /\ query = NoQuery
    /\ updateMethod \in ConstructedUpdateMethods
    /\ dataSize \in EngineDataSizes
    /\ header = ZeroHeader
    /\ jsonData = Fill(dataSize, 0)
    /\ medium = MediumOf(ZeroRecord(dataSize))
    /\ sop = NoStoreOp(dataSize)

\* The application calls withEventName(eventName) on the webhook before it
\* hands it to the engine.
WebhookWithEventNameCall ==
    /\ phase = "boot"
    /\ updateMethod.kind = "webhook"
    /\ updateMethod.givenBy \in {"none", "constructor"}
    /\ \E eventName \in EventNames :
          updateMethod' = [WebhookWithEventName(updateMethod, eventName) EXCEPT
                        !.given = eventName,
                        !.givenBy = IF updateMethod.givenBy = "none"
                                    THEN "withEventName" ELSE "renamed"]
    /\ UNCHANGED <<storeVars, configVars, engineVars, envVars, query>>

NextWebhook ==
    \/ WebhookWithEventNameCall
    \/ CloudConfigSetup
    \/ StateStart
    \/ StateWaitCloudConnected
    \/ StateWaitAfterCloudConnected
    \/ StateWaitToUpdate
    \/ StateStartUpdate
    \/ StateWaitUpdateComplete
    \/ UpdateData
    \/ AdvanceTime
    \/ TimeSynced

SpecWebhook == InitWebhook /\ [][NextWebhook]_vars

\* ------------------------------------------------------------------------
\* Properties of the engine
\* ------------------------------------------------------------------------

\* C3: when the store rejects the payload of a CloudConfig::updateData call
\* as too large, the call returns failure to its caller.
C3_ReportsStoreRejection ==
    ( /\ eop.name = "updateData"
      /\ storageKind \in DataKinds
      /\ sop.name = "updateData"
      /\ Len(sop.json) > GetMaxJsonDataSize(dataSize)
      /\ ~sop.accepted )
    => ~eop.ret

\* C10: a loop() in stateWaitAfterCloudConnected stays there while less than
\* waitAfterCloudConnectedMs has passed since stateTime; once that time has
\* passed it goes to stateStartUpdate exactly when the store has no data or
\* the policy is UPDATE_AT_RESTART, and otherwise goes to stateWaitToUpdate
\* with stateTime set to the current millis.
C10_WaitAfterCloudConnectedTick ==
    [][ (eop'.name = "loop" /\ eop'.handler = "stateWaitAfterCloudConnected")
        => IF millis - stateTime < waitAfterCloudConnectedMs
           THEN stateHandler' = "stateWaitAfterCloudConnected"
           ELSE /\ (stateHandler' = "stateStartUpdate") <=>
                      (~HasJsonData(jsonData) \/
                        updateFrequency = UPDATE_AT_RESTART)
                /\ stateHandler' # "stateStartUpdate" =>
                      /\ stateHandler' = "stateWaitToUpdate"
                      /\ stateTime' = millis ]_vars

\* The wait is over, the store has data and the policy is not
\* UPDATE_AT_RESTART: the engine has gone to stateWaitToUpdate and has taken
\* the time.
C10_Witness ==
    /\ eop.name = "loop" /\ eop.handler = "stateWaitAfterCloudConnected"
    /\ HasJsonData(jsonData) /\ updateFrequency # UPDATE_AT_RESTART
    /\ millis >= waitAfterCloudConnectedMs
    /\ stateHandler = "stateWaitToUpdate"
    /\ stateTime = millis

\* The policy of this run is p: the application configured it before
\* setup() and has not called withUpdateFrequency() since.
PolicyAllRun(p) == updateFrequency = p /\ hist.policyChanges = 0

\* C11: with policy UPDATE_ONCE, not changed since setup(), as long as the
\* store has had data ever since setup() the engine has not entered stateStartUpdate in this run and
\* startUpdate() is not called, however long the run and however old
\* lastCheck is.
C11_OnceWithDataNeverStarts ==
    (phase = "run" /\ PolicyAllRun(UPDATE_ONCE) /\ hist.hadData) =>
        /\ hist.starts = 0
        /\ stateHandler # "stateStartUpdate"
        /\ ~eop.started

\* C11 witness: policy UPDATE_ONCE, data ever since setup(), a lastCheck
\* long past, and stateWaitToUpdate has just made its 10 second check.
C11_Witness ==
    /\ PolicyAllRun(UPDATE_ONCE)
    /\ hist.hadData
    /\ storageKind \in DataKinds
    /\ eop.name = "loop" /\ eop.handler = "stateWaitToUpdate"
    /\ millis - stateTime >= WaitToUpdateCheckMs
    /\ timeValid
    /\ TimeNow - header.lastCheck > 100

\* C12: with policy UPDATE_ONCE all through the run the engine enters stateStartUpdate at most
\* once in a run, whatever the fetch comes to; it enters from
\* stateWaitAfterCloudConnected only, with an empty store and not before
\* waitAfterCloudConnectedMs have passed since the connection and the valid
\* clock were seen, which is when stateTime was taken; and with an empty
\* store the tick at which that time has passed does enter it.
C12_OnceEmptyStartsOnce ==
    /\ [](PolicyAllRun(UPDATE_ONCE) => hist.starts <= 1)
    /\ [][ ( /\ PolicyAllRun(UPDATE_ONCE)
             /\ stateHandler' = "stateStartUpdate"
             /\ stateHandler # "stateStartUpdate" )
           => /\ stateHandler = "stateWaitAfterCloudConnected"
              /\ millis - stateTime >= waitAfterCloudConnectedMs
              /\ ~HasJsonData(jsonData) ]_vars
    /\ [][ ( /\ stateHandler' = "stateWaitAfterCloudConnected"
             /\ stateHandler # "stateWaitAfterCloudConnected" )
           => /\ eop'.handler = "stateWaitCloudConnected"
              /\ timeValid
              /\ stateTime' = millis ]_vars
    /\ [][ ( /\ PolicyAllRun(UPDATE_ONCE)
             /\ eop'.name = "loop"
             /\ eop'.handler = "stateWaitAfterCloudConnected"
             /\ ~HasJsonData(jsonData)
             /\ millis - stateTime >= waitAfterCloudConnectedMs )
           => stateHandler' = "stateStartUpdate" ]_vars

\* C12 witness: policy UPDATE_ONCE and an empty store; the one fetch has
\* timed out and stateWaitToUpdate has made a 10 second check since.
C12_Witness ==
    /\ PolicyAllRun(UPDATE_ONCE)
    /\ hist.starts = 1
    /\ ~HasJsonData(jsonData)
    /\ updateDataStatus = "TIMEOUT"
    /\ eop.name = "loop" /\ eop.handler = "stateWaitToUpdate"
    /\ millis - stateTime >= WaitToUpdateCheckMs

\* C13: with policy UPDATE_AT_RESTART all through the run the tick of
\* stateWaitAfterCloudConnected at which the wait is over enters
\* stateStartUpdate whether the store has data or not and whatever lastCheck
\* is; the engine enters it at most once in a run, and once it is past that
\* tick it has entered it exactly once.
C13_AtRestartStartsOnce ==
    /\ [](PolicyAllRun(UPDATE_AT_RESTART) => hist.starts <= 1)
    /\ [][ ( /\ PolicyAllRun(UPDATE_AT_RESTART)
             /\ eop'.name = "loop"
             /\ eop'.handler = "stateWaitAfterCloudConnected"
             /\ millis - stateTime >= waitAfterCloudConnectedMs )
           => stateHandler' = "stateStartUpdate" ]_vars
    /\ []( ( /\ PolicyAllRun(UPDATE_AT_RESTART)
             /\ stateHandler \in {"stateWaitUpdateComplete", "stateWaitToUpdate"} )
           => hist.starts = 1 )

\* C13 witness: policy UPDATE_AT_RESTART and a store that has had data ever
\* since setup(); the one fetch of the run is over and stateWaitToUpdate has
\* made a 10 second check since.
C13_Witness ==
    /\ PolicyAllRun(UPDATE_AT_RESTART)
    /\ hist.hadData
    /\ hist.starts = 1
    /\ eop.name = "loop" /\ eop.handler = "stateWaitToUpdate"
    /\ millis - stateTime >= WaitToUpdateCheckMs

\* C14: over a store with a header, a loop() in stateWaitToUpdate goes to
\* stateStartUpdate exactly when at least 10000 ms have passed since
\* stateTime, the clock is valid, the policy is a positive interval and
\* Time.now() - lastCheck is greater than the interval; otherwise it stays
\* in stateWaitToUpdate.
C14_WaitToUpdateTick ==
    [][ ( /\ eop'.name = "loop"
          /\ eop'.handler = "stateWaitToUpdate"
          /\ storageKind \in DataKinds )
        => /\ (stateHandler' = "stateStartUpdate") <=>
                 ( /\ millis - stateTime >= WaitToUpdateCheckMs
                   /\ timeValid
                   /\ updateFrequency > 0
                   /\ TimeNow - header.lastCheck > updateFrequency )
           /\ stateHandler' \in {"stateStartUpdate", "stateWaitToUpdate"} ]_vars

\* C14 witness: a positive interval and a lastCheck further back than the
\* interval; the 10 second check has sent the engine to stateStartUpdate.
C14_Witness ==
    /\ eop.name = "loop" /\ eop.handler = "stateWaitToUpdate"
    /\ storageKind \in DataKinds
    /\ updateFrequency > 0
    /\ TimeNow - header.lastCheck > updateFrequency
    /\ stateHandler = "stateStartUpdate"

\* C15: while neither updateData nor updateDataFailed has been called since
\* startUpdate(), the status is IN_PROGRESS and the data callback has not
\* been called; a loop() in stateWaitUpdateComplete then stays there until
\* more than updateTimeoutMs have passed since stateTime, and on the first
\* tick after that sets the status to TIMEOUT and goes to stateWaitToUpdate
\* with stateTime set to the current millis, the callback still not called.
C15_TimeoutWithoutReply ==
    /\ []( (stateHandler = "stateWaitUpdateComplete" /\ ~hist.replied)
           => (updateDataStatus = "IN_PROGRESS" /\ ~hist.notified) )
    /\ [][ ( /\ eop'.name = "loop"
             /\ eop'.handler = "stateWaitUpdateComplete"
             /\ ~hist.replied )
           => IF millis - stateTime > updateTimeoutMs
              THEN /\ updateDataStatus' = "TIMEOUT"
                   /\ stateHandler' = "stateWaitToUpdate"
                   /\ stateTime' = millis
                   /\ ~eop'.called
                   /\ ~hist'.notified
              ELSE /\ updateDataStatus' = "IN_PROGRESS"
                   /\ stateHandler' = "stateWaitUpdateComplete"
                   /\ stateTime' = stateTime
                   /\ ~eop'.called ]_vars

\* C15 witness: a callback is registered, the fetch got no reply and has
\* just timed out.
C15_Witness ==
    /\ hasCallback
    /\ eop.name = "loop" /\ eop.handler = "stateWaitUpdateComplete"
    /\ ~hist.replied
    /\ ~hist.notified
    /\ updateDataStatus = "TIMEOUT"
    /\ stateHandler = "stateWaitToUpdate"
    /\ stateTime = millis

\* C16: an updateData(json) called while the engine is in stateWaitToUpdate
\* leaves stateHandler, stateTime and lastCheck as they were, calls the data
\* callback if one is registered and, when the store accepts the payload,
\* leaves the store holding it, parsed.
C16_UnsolicitedUpdateInWaitToUpdate ==
    [][ (eop'.name = "updateData" /\ stateHandler = "stateWaitToUpdate")
        => /\ stateHandler' = "stateWaitToUpdate"
           /\ stateTime' = stateTime
           /\ header'.lastCheck = header.lastCheck
           /\ eop'.called = hasCallback
           /\ sop'.accepted =>
                 /\ CStr(jsonData') = sop'.json
                 /\ jsonObj' = ParseCopy(sop'.json)
                 /\ Persisted'.data = jsonData' ]_vars

\* C16 witness: in stateWaitToUpdate, some time after stateTime was taken,
\* a payload arrived, was accepted and the callback was called.
C16_Witness ==
    /\ eop.name = "updateData"
    /\ stateHandler = "stateWaitToUpdate"
    /\ stateTime < millis
    /\ sop.accepted
    /\ sop.json # <<>>
    /\ eop.called

\* C17: updateDataFailed() sets the status to FAILURE and changes nothing
\* else: header, payload, parsed tree and persisted bytes, stateHandler and
\* stateTime stay and the data callback is not called; the next loop() in
\* stateWaitUpdateComplete then goes to stateWaitToUpdate.
C17_UpdateDataFailedOnlySetsStatus ==
    /\ [][ eop'.name = "updateDataFailed"
           => /\ updateDataStatus' = "FAILURE"
              /\ header' = header
              /\ jsonData' = jsonData
              /\ jsonObj' = jsonObj
              /\ Persisted' = Persisted
              /\ stateHandler' = stateHandler
              /\ stateTime' = stateTime
              /\ ~eop'.called
              /\ hist'.notified = hist.notified ]_vars
    /\ [][ ( /\ eop'.name = "loop"
             /\ eop'.handler = "stateWaitUpdateComplete"
             /\ updateDataStatus = "FAILURE" )
           => /\ stateHandler' = "stateWaitToUpdate"
              /\ updateDataStatus' = "FAILURE" ]_vars

\* C17 witness: a callback is registered and the store has data; the fetch
\* in flight was answered by updateDataFailed() alone, and the next tick has
\* taken the engine to stateWaitToUpdate.
C17_Witness ==
    /\ hasCallback
    /\ HasJsonData(jsonData)
    /\ eop.name = "loop" /\ eop.handler = "stateWaitUpdateComplete"
    /\ updateDataStatus = "FAILURE"
    /\ hist.replied
    /\ ~hist.notified
    /\ stateHandler = "stateWaitToUpdate"

\* C18: setup() with a storage method and an update method leaves the
\* engine in stateStart; the loop() that runs stateStart calls the data
\* callback exactly when the store has data and a callback is registered,
\* leaves the store alone and goes to stateWaitCloudConnected, whether or
\* not the cloud is connected or the clock valid; stateStart runs at most
\* once in a run and is never entered again.
C18_StartNotifiesOnce ==
    /\ [][ (eop'.name = "setup" /\ storageKind # "None" /\ hasUpdateMethod)
           => stateHandler' = "stateStart" ]_vars
    /\ [][ (eop'.name = "loop" /\ stateHandler = "stateStart")
           => /\ eop'.handler = "stateStart"
              /\ eop'.called = (HasJsonData(jsonData) /\ hasCallback)
              /\ stateHandler' = "stateWaitCloudConnected"
              /\ header' = header
              /\ jsonData' = jsonData
              /\ jsonObj' = jsonObj ]_vars
    /\ [][ stateHandler' = "stateStart"
           => (stateHandler = "stateStart" \/ eop'.name = "setup") ]_vars
    /\ [](hist.startTicks <= 1)

\* C18 witness: the store has data and a callback is registered; stateStart
\* has run and called it while the clock was not yet valid.
C18_Witness ==
    /\ eop.name = "loop" /\ eop.handler = "stateStart"
    /\ eop.called
    /\ HasJsonData(jsonData)
    /\ ~timeValid
    /\ hist.startTicks = 1
    /\ stateHandler = "stateWaitCloudConnected"

\* C19: whenever the data callback is called, the store has data.
C19_CallbackOnlyWithData ==
    eop.called => HasJsonData(jsonData)

\* C20: CloudConfig::updateData calls the data callback only when the store
\* accepted the payload; a payload rejected as too large does not bring a
\* call of the callback.
C20_CallbackOnlyWhenAccepted ==
    (sop.name = "updateData" /\ eop.called) => sop.accepted

\* C21: no sequence of setup(), loop(), updateData() and updateDataFailed()
\* under any configuration makes the process use an absent object.
C21_NeverCrashes == ~crashed

\* C22: lastCheck of the record is the time of the last fetch attempted,
\* also after a restart: once a stateStartUpdate has run, the record that
\* setup() loads in the next run has lastCheck equal to the Time.now() of
\* that stateStartUpdate, whatever became of the fetch.
C22_LastCheckSurvivesRestart ==
    ( /\ restarts > 0
      /\ eop.name = "setup"
      /\ storageKind \in DataKinds
      /\ hist.lastStart >= 0 )
    => header.lastCheck = hist.lastStart

\* C23: getJSONValueAtIndex returns the member at the index for every index
\* below the number of members, and the invalid value for every index at or
\* beyond it.
C23_AtIndexReturnsIth ==
    query.done =>
        query.result = IF query.index < Len(query.parent)
                       THEN query.parent[query.index + 1]
                       ELSE InvalidJSONValue

\* C30: whether the event name was given to the constructor or to
\* withEventName() of a webhook constructed without one, startUpdate()
\* publishes on that name and setup() subscribes to the hook response of
\* that name.
C30_PublishAndSubscribeSameName ==
    ( /\ updateMethod.kind = "webhook"
      /\ updateMethod.subscribed
      /\ updateMethod.published
      /\ updateMethod.givenBy \in {"constructor", "withEventName"} )
    => /\ updateMethod.publishedOn = updateMethod.given
       /\ updateMethod.subscribedTo =
              HookResponseName(updateMethod.deviceId, updateMethod.given)

\* C24: under a periodic policy of N seconds, with a record that has a
\* header, the engine starts a fetch after a failed or timed-out one only
\* from stateWaitToUpdate, only when the time of that attempt is what
\* lastCheck holds and lies more than N seconds back; and a check of
\* stateWaitToUpdate that runs with a valid clock starts the fetch exactly
\* when it does, for a failure and for a timeout alike.
C24_RetryOnlyWhenStale ==
    [][ ( /\ storageKind \in DataKinds
          /\ updateFrequency > 0
          /\ updateDataStatus \in {"FAILURE", "TIMEOUT"}
          /\ hist.lastStart >= 0 )
        => /\ ( stateHandler' = "stateStartUpdate"
                /\ stateHandler # "stateStartUpdate" )
              => /\ stateHandler = "stateWaitToUpdate"
                 /\ header.lastCheck = hist.lastStart
                 /\ TimeNow - hist.lastStart > updateFrequency
           /\ ( /\ eop'.handler = "stateWaitToUpdate"
                /\ millis - stateTime >= WaitToUpdateCheckMs
                /\ timeValid )
              => ( stateHandler' = "stateStartUpdate"
                   <=> TimeNow - hist.lastStart > updateFrequency ) ]_vars

\* A second fetch is about to start after the first one timed out.
C24_Witness ==
    /\ storageKind \in DataKinds
    /\ updateFrequency > 0
    /\ stateHandler = "stateStartUpdate"
    /\ updateDataStatus = "TIMEOUT"
    /\ hist.starts = 2
    /\ hist.lastStart >= 0
    /\ TimeNow - hist.lastStart > updateFrequency

\* C25: an updateData(json) called after the fetch was declared timed out
\* is applied whatever handler the engine is in: the status becomes SUCCESS,
\* the data callback is called if one is registered, the handler and its
\* time stay, and, when the store accepts the payload, the store holds it,
\* parsed.
C25_LateReplyIsApplied ==
    [][ (eop'.name = "updateData" /\ updateDataStatus = "TIMEOUT")
        => /\ updateDataStatus' = "SUCCESS"
           /\ eop'.called = hasCallback
           /\ eop'.ret
           /\ stateHandler' = stateHandler
           /\ stateTime' = stateTime
           /\ sop'.accepted =>
                 /\ CStr(jsonData') = sop'.json
                 /\ jsonObj' = ParseCopy(sop'.json)
                 /\ Persisted'.data = jsonData' ]_vars

\* C25 witness: the fetch timed out unanswered, the engine went back to
\* stateWaitToUpdate, and then a payload arrived, was accepted and the
\* callback was called.
C25_Witness ==
    /\ hist.late
    /\ ~eop.started
    /\ stateHandler = "stateWaitToUpdate"
    /\ updateDataStatus = "SUCCESS"
    /\ sop.accepted
    /\ sop.json # <<>>
    /\ eop.called

\* The handlers a handler assigns to stateHandler.
NextHandlers(h) ==
    CASE h = "stateStart" -> {"stateWaitCloudConnected"}
      [] h = "stateWaitCloudConnected" -> {"stateWaitAfterCloudConnected"}
      [] h = "stateWaitAfterCloudConnected" ->
             {"stateStartUpdate", "stateWaitToUpdate"}
      [] h = "stateWaitToUpdate" -> {"stateStartUpdate"}
      [] h = "stateStartUpdate" -> {"stateWaitUpdateComplete"}
      [] h = "stateWaitUpdateComplete" -> {"stateWaitToUpdate"}
      [] OTHER -> {}

\* C26: a loop() with a state handler set runs that handler and no other,
\* and stateHandler stays or moves along one edge of the state machine,
\* also when startUpdate() is answered before it returns.
C26_OneTransitionPerTick ==
    [][ (eop'.name = "loop" /\ stateHandler # "none")
        => /\ eop'.handler = stateHandler
           /\ stateHandler' \in {stateHandler} \cup NextHandlers(stateHandler)
      ]_vars

\* C26 witness: startUpdate() was answered with a payload before it
\* returned, and the tick ended in stateWaitUpdateComplete.
C26_Witness ==
    /\ eop.name = "loop"
    /\ eop.handler = "stateStartUpdate"
    /\ eop.started
    /\ updateDataStatus = "SUCCESS"
    /\ stateHandler = "stateWaitUpdateComplete"

\* C27: while the engine stays in stateWaitToUpdate, two successive runs of
\* the check behind the 10 second test are at least 10 000 ms apart.
C27_ChecksTenSecondsApart ==
    [][ ( /\ eop'.handler = "stateWaitToUpdate"
          /\ millis - stateTime >= WaitToUpdateCheckMs
          /\ hist.lastEval >= 0 )
        => millis - hist.lastEval >= WaitToUpdateCheckMs ]_vars

\* C29: an updateData(json) called while the engine waits in
\* stateWaitUpdateComplete sets the status to SUCCESS and leaves the handler;
\* the next loop() then goes to stateWaitToUpdate with the status still
\* SUCCESS, however long ago the fetch was started; and a fetch that was
\* answered this way is never marked TIMEOUT.
C29_ReplyBetweenTicksIsSuccess ==
    /\ [][ (eop'.name = "updateData" /\ stateHandler = "stateWaitUpdateComplete")
           => /\ updateDataStatus' = "SUCCESS"
              /\ stateHandler' = "stateWaitUpdateComplete" ]_vars
    /\ [][ ( /\ eop'.name = "loop"
             /\ eop'.handler = "stateWaitUpdateComplete"
             /\ updateDataStatus = "SUCCESS" )
           => /\ stateHandler' = "stateWaitToUpdate"
              /\ stateTime' = millis
              /\ updateDataStatus' = "SUCCESS" ]_vars
    /\ [](hist.answered => updateDataStatus # "TIMEOUT")

\* C29 witness: the payload arrived while the engine waited for it, the
\* next tick came more than updateTimeoutMs after the fetch was started, and
\* it took the engine to stateWaitToUpdate with the status SUCCESS.
C29_Witness ==
    /\ hist.answered
    /\ eop.name = "loop"
    /\ eop.handler = "stateWaitUpdateComplete"
    /\ (TimeNow - hist.lastStart) * 1000 > updateTimeoutMs
    /\ stateHandler = "stateWaitToUpdate"
    /\ stateTime = millis
    /\ updateDataStatus = "SUCCESS"

\* C28: with loop() called at least every TickIntervalMs, the engine is in
\* stateWaitUpdateComplete with the status IN_PROGRESS for no longer than
\* updateTimeoutMs plus TickIntervalMs; and whenever it is in
\* stateWaitUpdateComplete, with the clock followed far enough for the
\* timeout to pass, it gets to stateWaitToUpdate with the status SUCCESS,
\* FAILURE or TIMEOUT.
C28_FetchIsResolved ==
    /\ []( (stateHandler = "stateWaitUpdateComplete"
              /\ updateDataStatus = "IN_PROGRESS")
           => millis - stateTime <= updateTimeoutMs + TickIntervalMs )
    /\ ( ( /\ stateHandler = "stateWaitUpdateComplete"
           /\ stateTime + updateTimeoutMs + TickIntervalMs <= MaxMillis )
         ~> ( /\ stateHandler = "stateWaitToUpdate"
              /\ updateDataStatus \in {"SUCCESS", "FAILURE", "TIMEOUT"} ) )

\* C28 witness: the fetch was not answered, the wait lasted updateTimeoutMs
\* and one interval more, and the tick at its end took the engine to
\* stateWaitToUpdate with the status TIMEOUT.
C28_Witness ==
    /\ eop.name = "loop"
    /\ eop.handler = "stateWaitUpdateComplete"
    /\ stateHandler = "stateWaitToUpdate"
    /\ updateDataStatus = "TIMEOUT"
    /\ ~hist.replied
    /\ stateTime = millis
    /\ (TimeNow - hist.lastStart) * 1000 = updateTimeoutMs + TickIntervalMs

\* C31: after setup() with a storage method and no update method,
\* stateHandler stays unset, no fetch is ever started, and no loop() runs a
\* handler, calls the data callback or calls startUpdate(), also when the
\* store has data and a callback is registered.
C31_NoUpdateMethodNoStateMachine ==
    /\ []( (phase = "run" /\ storageKind # "None" /\ ~hasUpdateMethod)
           => /\ stateHandler = "none"
              /\ hist.starts = 0
              /\ hist.startTicks = 0 )
    /\ [][ (eop'.name = "loop" /\ storageKind # "None" /\ ~hasUpdateMethod)
           => /\ eop'.handler = "none"
              /\ ~eop'.called
              /\ ~eop'.started
              /\ stateHandler' = "none" ]_vars

\* C31 witness: no update method, a callback registered, a store with data,
\* and loop() has been called some time after setup().
C31_Witness ==
    /\ ~hasUpdateMethod
    /\ hasCallback
    /\ storageKind # "None"
    /\ HasJsonData(jsonData)
    /\ eop.name = "loop"
    /\ millis > 0
    /\ stateHandler = "none"

\* C32: the header in memory changes only in setup(), where validate() may
\* wipe it, and in stateStartUpdate, which writes lastCheck and nothing
\* else of it; an updateData(json), accepted or not, asked for or not,
\* leaves every field of the header as it was, and with it the handler and
\* its time, so the next periodic fetch comes when it would have come.
C32_HeaderFrame ==
    /\ [][ header' # header
           => \/ eop'.name = "setup"
              \/ /\ eop'.handler = "stateStartUpdate"
                 /\ header' = [header EXCEPT !.lastCheck = TimeNow] ]_vars
    /\ [][ eop'.name = "updateData"
           => /\ header' = header
              /\ stateHandler' = stateHandler
              /\ stateTime' = stateTime ]_vars

\* C32 witness: under a periodic policy, some seconds after the last fetch
\* was started, a payload nobody asked for arrived in stateWaitToUpdate and
\* was accepted; lastCheck is still the time of that fetch.
C32_Witness ==
    /\ updateFrequency > 0
    /\ eop.name = "updateData"
    /\ sop.accepted
    /\ stateHandler = "stateWaitToUpdate"
    /\ header.magic = DATA_MAGIC
    /\ hist.lastStart >= 0
    /\ header.lastCheck = hist.lastStart
    /\ TimeNow > hist.lastStart

\* C33: whenever the status is IN_PROGRESS the engine is in
\* stateWaitUpdateComplete, so in every other handler the status is IDLE,
\* SUCCESS, FAILURE or TIMEOUT; and the status becomes TIMEOUT only in a
\* loop() that runs stateWaitUpdateComplete.
C33_InProgressOnlyWhileWaiting ==
    /\ []( updateDataStatus = "IN_PROGRESS"
           => stateHandler = "stateWaitUpdateComplete" )
    /\ []( stateHandler # "stateWaitUpdateComplete"
           => updateDataStatus \in {"IDLE", "SUCCESS", "FAILURE", "TIMEOUT"} )
    /\ [][ (updateDataStatus' = "TIMEOUT" /\ updateDataStatus # "TIMEOUT")
           => /\ eop'.name = "loop"
              /\ eop'.handler = "stateWaitUpdateComplete" ]_vars

\* C33 witness: a loop() ran stateWaitUpdateComplete some time after the
\* fetch was started and left the fetch in progress.
C33_Witness ==
    /\ eop.name = "loop"
    /\ eop.handler = "stateWaitUpdateComplete"
    /\ stateHandler = "stateWaitUpdateComplete"
    /\ updateDataStatus = "IN_PROGRESS"
    /\ millis > stateTime

\* C34: after setup(), and after every updateData(json) that follows it,
\* the payload area still has dataSize bytes and holds a terminator among
\* them, so the text in it is at most dataSize - 1 characters long.
C34_BufferTerminated ==
    phase = "run"
    => /\ Len(jsonData) = dataSize
       /\ Terminated(jsonData)
       /\ Len(CStr(jsonData)) <= dataSize - 1

\* C35: when a fetch has timed out unanswered and a later fetch is in
\* flight, an updateData(json) is taken for the answer to the fetch in
\* flight: the status becomes SUCCESS, and the next loop() leaves
\* stateWaitUpdateComplete for stateWaitToUpdate with that status.
C35_LateReplyResolvesNextFetch ==
    /\ [][ ( /\ eop'.name = "updateData"
             /\ hist.owed
             /\ stateHandler = "stateWaitUpdateComplete"
             /\ updateDataStatus = "IN_PROGRESS" )
           => /\ updateDataStatus' = "SUCCESS"
              /\ stateHandler' = "stateWaitUpdateComplete"
              /\ hist'.crossed ]_vars
    /\ [][ ( /\ eop'.name = "loop"
             /\ hist.crossed
             /\ stateHandler = "stateWaitUpdateComplete"
             /\ updateDataStatus = "SUCCESS" )
           => /\ stateHandler' = "stateWaitToUpdate"
              /\ updateDataStatus' = "SUCCESS" ]_vars

\* C35 witness: the first fetch timed out, the second was started, one
\* payload arrived while it was in flight, and the next tick took the engine
\* to stateWaitToUpdate with the status SUCCESS.
C35_Witness ==
    /\ hist.starts = 2
    /\ hist.crossed
    /\ eop.name = "loop"
    /\ eop.handler = "stateWaitUpdateComplete"
    /\ stateHandler = "stateWaitToUpdate"
    /\ updateDataStatus = "SUCCESS"

\* C36: in one process run, a fetch is started no sooner than 10 000 ms of
\* millis() after the fetch before it was started, however short the
\* period of the policy.
C36_StartsTenSecondsApart ==
    [][ (eop'.started /\ hist.lastStartMs >= 0)
        => millis - hist.lastStartMs >= WaitToUpdateCheckMs ]_vars

\* C36 witness: under a period shorter than the wait, the second fetch was
\* started when the wait of stateWaitToUpdate was over, and not before.
C36_Witness ==
    /\ updateFrequency * 1000 < WaitToUpdateCheckMs
    /\ updateFrequency > 0
    /\ eop.started
    /\ hist.starts = 2
    /\ hist.lastStartMs = millis

\* C37: what startUpdate() reports before it returns is kept: the tick of
\* stateStartUpdate ends in stateWaitUpdateComplete with stateTime taken,
\* with the status SUCCESS when updateData(json) was called in it and
\* IN_PROGRESS, SUCCESS or FAILURE in any case; and the loop() that follows
\* a SUCCESS or FAILURE reported that way goes to stateWaitToUpdate with
\* the status as it is, whatever time has passed.
C37_SynchronousCompletionKept ==
    /\ [][ eop'.started
           => /\ stateHandler' = "stateWaitUpdateComplete"
              /\ stateTime' = millis
              /\ updateDataStatus' \in {"IN_PROGRESS", "SUCCESS", "FAILURE"}
              /\ sop'.name = "updateData" => updateDataStatus' = "SUCCESS"
              /\ eop'.called => updateDataStatus' = "SUCCESS" ]_vars
    /\ [][ ( /\ eop'.name = "loop"
             /\ stateHandler = "stateWaitUpdateComplete"
             /\ hist.sync
             /\ updateDataStatus \in {"SUCCESS", "FAILURE"} )
           => /\ stateHandler' = "stateWaitToUpdate"
              /\ updateDataStatus' = updateDataStatus ]_vars

\* C37 witness: startUpdate() called updateDataFailed() before it returned,
\* nothing else was reported, and the next loop(), with no time passed, took
\* the engine to stateWaitToUpdate with the status FAILURE.
C37_Witness ==
    /\ hist.sync
    /\ ~hist.answered
    /\ eop.name = "loop"
    /\ eop.handler = "stateWaitUpdateComplete"
    /\ hist.lastStartMs = millis
    /\ stateHandler = "stateWaitToUpdate"
    /\ updateDataStatus = "FAILURE"
====
